---- MODULE Spec2Model ----
(***************************************************************************)
(* Entity resolution core of personal-investor-memory: the identity        *)
(* linker (src/entities/linker.py) over the relational store               *)
(* (src/storage/relational.py, src/storage/models.py), the mention          *)
(* extractor (src/entities/extractor.py) and the ingestion pipeline         *)
(* (src/ingestion/pipeline.py).                                             *)
(*                                                                         *)
(* Strings are sequences of one-character strings, so that lower(),        *)
(* title(), split() and SQL LIKE are computed character by character.      *)
(***************************************************************************)
EXTENDS Integers, Sequences, FiniteSets, TLC

\* ------------------------------------------------------------------ bounds
\* Number of Company/Person records the store may hold in a run (uuid4 ids
\* are drawn from 1..MaxEntities).
MaxEntities == 2
\* Longest participant list passed to one ingest_interaction call.
MaxParticipants == 2

\* ----------------------------------------------------------------- strings
None == "None"

\* str.lower() on the alphabet of the model
LowerCh(c) ==
    CASE c = "A" -> "a"
      [] c = "B" -> "b"
      [] c = "C" -> "c"
      [] c = "O" -> "o"
      [] c = "T" -> "t"
      [] OTHER -> c

Lower(s) == [i \in 1..Len(s) |-> LowerCh(s[i])]

\* SQL LIKE: % matches any run of characters, _ exactly one character.
RECURSIVE LikeMatch(_, _)
LikeMatch(pat, s) ==
    IF pat = <<>> THEN s = <<>>
    ELSE IF Head(pat) = "%"
         THEN LikeMatch(Tail(pat), s) \/ (s # <<>> /\ LikeMatch(pat, Tail(s)))
    ELSE IF Head(pat) = "_"
         THEN s # <<>> /\ LikeMatch(Tail(pat), Tail(s))
    ELSE s # <<>> /\ Head(s) = Head(pat) /\ LikeMatch(Tail(pat), Tail(s))

\* column.ilike(f"%{name}%"): lower(column) LIKE lower('%name%')
ILikeContains(column, name) ==
    LikeMatch(Lower(<<"%">> \o name \o <<"%">>), Lower(column))

\* ------------------------------------------------------------------ inputs
\* Surface names: a pair that differs in case only and a name that is a
\* substring of both; "Ab" is no substring of "b", so each name also occurs
\* as one that matches nothing.
Names == { <<"A", "b">>, <<"a", "b">>, <<"b">> }
Urls == {"U1", "U2"}
Emails == {"E1"}
LinkedinUrls == {"L1"}

COMPANY == "company"
PERSON == "person"
THEME == "theme"

\* ExtractedEntity as the linker reads it: text, entity_type and the
\* metadata keys url / email / linkedin_url (None when the key is absent).
Mentions ==
    [entity_type : {COMPANY}, text : Names, url : Urls \cup {None},
     email : {None}, linkedin_url : LinkedinUrls \cup {None}]
    \cup
    [entity_type : {PERSON}, text : Names, url : {None},
     email : Emails \cup {None}, linkedin_url : LinkedinUrls \cup {None}]
    \cup
    [entity_type : {THEME}, text : {<<"b">>}, url : {None},
     email : {None}, linkedin_url : {None}]

\* ------------------------------------------------------------------- state
VARIABLES
    companies,      \* table companies, rows in rowid (insertion) order
    people,         \* table people, rows in rowid (insertion) order
    interactions,   \* table interactions with its participant associations
    artifacts,      \* table artifacts
    ingest,         \* the most recent ingest call: its outcome
    call,           \* per task, the link call it is running and where it is
    extraction,     \* the extract call: its text, the completion, its result
    chunking,       \* the chunk_text call: its arguments, its loop, its result
    chunk_table,    \* table chunks with its chunk_entities associations
    vectors,        \* the Chroma collection: one entry per chunk id
    search,         \* the most recent retrieval call: its result
    nextId,         \* per entity class, the number of the next fresh id
    last            \* the most recent link call: its mention and its outcome

vars ==
    <<companies, people, interactions, artifacts, nextId, last, ingest, call,
      extraction, chunking, chunk_table, vectors, search>>

NoCall ==
    [op |-> "none", entity_type |-> None, text |-> <<>>, url |-> None,
     email |-> None, linkedin_url |-> None, id |-> <<"none", 0>>,
     created |-> FALSE,
     outcome |-> "none"]

\* ----------------------------------------------------------------- storage
\* default of search_*_by_name(name, limit=5)
SearchLimit == 5

Min(a, b) == IF a <= b THEN a ELSE b

\* `if linkedin_url:` / `if url:` / `if email:` on an Optional[str]
Truthy(v) == v # None

\* Result.scalar_one_or_none() over the rows a WHERE clause selects; the
\* unique columns admit at most one row. An Optional[row] is the sequence
\* of no row (Python None) or of one row.
NoRow == <<>>
ScalarOneOrNone(rows) == IF rows = <<>> THEN NoRow ELSE <<rows[1]>>

get_company_by_linkedin(tbl, linkedin_url) ==
    ScalarOneOrNone(SelectSeq(tbl, LAMBDA r : r.linkedin_url = linkedin_url))

get_company_by_url(tbl, url) ==
    ScalarOneOrNone(SelectSeq(tbl, LAMBDA r : r.url = url))

search_companies_by_name(tbl, name, limit) ==
    LET hits == SelectSeq(tbl, LAMBDA r : ILikeContains(r.name, name))
    IN  SubSeq(hits, 1, Min(limit, Len(hits)))

get_person_by_linkedin(tbl, linkedin_url) ==
    ScalarOneOrNone(SelectSeq(tbl, LAMBDA r : r.linkedin_url = linkedin_url))

\* Variant of get_person_by_email: the WHERE clause names the wrong column.
get_person_by_email_wrong_column(tbl, email) ==
    ScalarOneOrNone(SelectSeq(tbl, LAMBDA r : r.linkedin_url = email))

get_person_by_email(tbl, email) ==
    ScalarOneOrNone(SelectSeq(tbl, LAMBDA r : r.email = email))

search_people_by_name(tbl, name, limit) ==
    LET hits == SelectSeq(tbl, LAMBDA r : ILikeContains(r.name, name))
    IN  SubSeq(hits, 1, Min(limit, Len(hits)))

\* CompanyRow: primary key id, unique url, unique linkedin_url (NULLs are
\* never equal). TRUE when the INSERT would be rejected.
CompanyRowConflict(tbl, row) ==
    \E i \in 1..Len(tbl) :
        \/ tbl[i].id = row.id
        \/ row.url # None /\ tbl[i].url = row.url
        \/ row.linkedin_url # None /\ tbl[i].linkedin_url = row.linkedin_url

\* PersonRow: primary key id, unique linkedin_url, unique email.
PersonRowConflict(tbl, row) ==
    \E i \in 1..Len(tbl) :
        \/ tbl[i].id = row.id
        \/ row.email # None /\ tbl[i].email = row.email
        \/ row.linkedin_url # None /\ tbl[i].linkedin_url = row.linkedin_url

\* session.add(row); commit(): the table afterwards, and whether the commit
\* raised IntegrityError.
save_company(tbl, row) ==
    IF CompanyRowConflict(tbl, row)
    THEN [table |-> tbl, raised |-> TRUE]
    ELSE [table |-> Append(tbl, row), raised |-> FALSE]

save_person(tbl, row) ==
    IF PersonRowConflict(tbl, row)
    THEN [table |-> tbl, raised |-> TRUE]
    ELSE [table |-> Append(tbl, row), raised |-> FALSE]

\* ------------------------------------------------------------------ linker
\* Outcome of one link call: the entity returned (None when the call
\* raised), the table afterwards, whether a record was created.
Linked(entity, tbl, created, outcome) ==
    [id |-> entity.id, table |-> tbl, created |-> created, outcome |-> outcome]

\* A call that raised returns no entity.
NoId == <<"none", 0>>
Raised(tbl, outcome) ==
    [id |-> NoId, table |-> tbl, created |-> FALSE, outcome |-> outcome]

CreateCompany(tbl, id, name, url, linkedin_url) ==
    LET company == [id |-> id, name |-> name, url |-> url,
                    linkedin_url |-> linkedin_url]
        saved == save_company(tbl, company)
    IN  IF saved.raised
        THEN Raised(saved.table, "IntegrityError")
        ELSE Linked(company, saved.table, TRUE, "ok")

\* Variant of link_company: the URL lookup runs before the LinkedIn lookup.
link_company_url_first(tbl, id, name, url, linkedin_url) ==
    LET byLinkedin == IF Truthy(linkedin_url)
                      THEN get_company_by_linkedin(tbl, linkedin_url) ELSE NoRow
        byUrl == IF Truthy(url) THEN get_company_by_url(tbl, url) ELSE NoRow
        byName == search_companies_by_name(tbl, name, SearchLimit)
    IN  IF byUrl # NoRow THEN Linked(byUrl[1], tbl, FALSE, "ok")
        ELSE IF byLinkedin # NoRow THEN Linked(byLinkedin[1], tbl, FALSE, "ok")
        ELSE IF byName # <<>> THEN Linked(byName[1], tbl, FALSE, "ok")
        ELSE CreateCompany(tbl, id, name, url, linkedin_url)

\* Variant of link_company: a mention that carries a URL is never resolved
\* by name.
link_company_url_strict(tbl, id, name, url, linkedin_url) ==
    LET byLinkedin == IF Truthy(linkedin_url)
                      THEN get_company_by_linkedin(tbl, linkedin_url) ELSE NoRow
        byUrl == IF Truthy(url) THEN get_company_by_url(tbl, url) ELSE NoRow
        byName == IF Truthy(url) THEN <<>>
                  ELSE search_companies_by_name(tbl, name, SearchLimit)
    IN  IF byLinkedin # NoRow THEN Linked(byLinkedin[1], tbl, FALSE, "ok")
        ELSE IF byUrl # NoRow THEN Linked(byUrl[1], tbl, FALSE, "ok")
        ELSE IF byName # <<>> THEN Linked(byName[1], tbl, FALSE, "ok")
        ELSE CreateCompany(tbl, id, name, url, linkedin_url)

\* Variant of link_company: a company matched by name that has no URL
\* takes the URL of the mention.
link_company_backfill(tbl, id, name, url, linkedin_url) ==
    LET byLinkedin == IF Truthy(linkedin_url)
                      THEN get_company_by_linkedin(tbl, linkedin_url) ELSE NoRow
        byUrl == IF Truthy(url) THEN get_company_by_url(tbl, url) ELSE NoRow
        byName == search_companies_by_name(tbl, name, SearchLimit)
        filled == [i \in 1..Len(tbl) |->
                      IF tbl[i].id = byName[1].id /\ tbl[i].url = None
                      THEN [tbl[i] EXCEPT !.url = url] ELSE tbl[i]]
    IN  IF byLinkedin # NoRow THEN Linked(byLinkedin[1], tbl, FALSE, "ok")
        ELSE IF byUrl # NoRow THEN Linked(byUrl[1], tbl, FALSE, "ok")
        ELSE IF byName # <<>> THEN Linked(byName[1], filled, FALSE, "ok")
        ELSE CreateCompany(tbl, id, name, url, linkedin_url)

link_company(tbl, id, name, url, linkedin_url) ==
    LET byLinkedin == IF Truthy(linkedin_url)
                      THEN get_company_by_linkedin(tbl, linkedin_url) ELSE NoRow
        byUrl == IF Truthy(url) THEN get_company_by_url(tbl, url) ELSE NoRow
        byName == search_companies_by_name(tbl, name, SearchLimit)
    IN  IF byLinkedin # NoRow THEN Linked(byLinkedin[1], tbl, FALSE, "ok")
        ELSE IF byUrl # NoRow THEN Linked(byUrl[1], tbl, FALSE, "ok")
        ELSE IF byName # <<>> THEN Linked(byName[1], tbl, FALSE, "ok")
        ELSE CreateCompany(tbl, id, name, url, linkedin_url)

CreatePerson(tbl, id, name, email, linkedin_url) ==
    LET person == [id |-> id, name |-> name, email |-> email,
                   linkedin_url |-> linkedin_url]
        saved == save_person(tbl, person)
    IN  IF saved.raised
        THEN Raised(saved.table, "IntegrityError")
        ELSE Linked(person, saved.table, TRUE, "ok")

\* Variant of link_person: the email is not looked up, and the new row is
\* written to a table that has no unique columns.
link_person_email_unchecked(tbl, id, name, email, linkedin_url) ==
    LET byLinkedin == IF Truthy(linkedin_url)
                      THEN get_person_by_linkedin(tbl, linkedin_url) ELSE NoRow
        byName == search_people_by_name(tbl, name, SearchLimit)
        person == [id |-> id, name |-> name, email |-> email,
                   linkedin_url |-> linkedin_url]
    IN  IF byLinkedin # NoRow THEN Linked(byLinkedin[1], tbl, FALSE, "ok")
        ELSE IF byName # <<>> THEN Linked(byName[1], tbl, FALSE, "ok")
        ELSE Linked(person, Append(tbl, person), TRUE, "ok")

\* Variant of link_person: no name search, an unresolved mention is created.
link_person_no_name_search(tbl, id, name, email, linkedin_url) ==
    LET byLinkedin == IF Truthy(linkedin_url)
                      THEN get_person_by_linkedin(tbl, linkedin_url) ELSE NoRow
        byEmail == IF Truthy(email) THEN get_person_by_email(tbl, email) ELSE NoRow
    IN  IF byLinkedin # NoRow THEN Linked(byLinkedin[1], tbl, FALSE, "ok")
        ELSE IF byEmail # NoRow THEN Linked(byEmail[1], tbl, FALSE, "ok")
        ELSE CreatePerson(tbl, id, name, email, linkedin_url)

link_person(tbl, id, name, email, linkedin_url) ==
    LET byLinkedin == IF Truthy(linkedin_url)
                      THEN get_person_by_linkedin(tbl, linkedin_url) ELSE NoRow
        byEmail == IF Truthy(email) THEN get_person_by_email(tbl, email) ELSE NoRow
        byName == search_people_by_name(tbl, name, SearchLimit)
    IN  IF byLinkedin # NoRow THEN Linked(byLinkedin[1], tbl, FALSE, "ok")
        ELSE IF byEmail # NoRow THEN Linked(byEmail[1], tbl, FALSE, "ok")
        ELSE IF byName # <<>> THEN Linked(byName[1], tbl, FALSE, "ok")
        ELSE CreatePerson(tbl, id, name, email, linkedin_url)

IdClasses == {COMPANY, PERSON, "interaction", "artifact", "chunk"}

\* uuid4(): a fresh id. Ids are numbered per entity class, so that the
\* ids of one class do not record what was created in the other.
uuid4(counter, class) == <<class, counter[class]>>
Drawn(counter, class) == [counter EXCEPT ![class] = @ + 1]

\* The entity tables as one value, so that a call can be evaluated in any
\* state.
Store == [companies |-> companies, people |-> people, nextId |-> nextId]

\* EntityLinker.link_entity(extracted) evaluated in store st: dispatch on
\* the entity type; anything but a company or a person raises ValueError.
link_entity(st, m) ==
    IF m.entity_type = COMPANY
    THEN LET r == link_company(st.companies, uuid4(st.nextId, COMPANY),
                               m.text, m.url, m.linkedin_url)
         IN  [id |-> r.id, created |-> r.created, outcome |-> r.outcome,
              store |-> [companies |-> r.table, people |-> st.people,
                         nextId |-> IF r.created
                                    THEN Drawn(st.nextId, COMPANY)
                                    ELSE st.nextId]]
    ELSE IF m.entity_type = PERSON
    THEN LET r == link_person(st.people, uuid4(st.nextId, PERSON),
                              m.text, m.email, m.linkedin_url)
         IN  [id |-> r.id, created |-> r.created, outcome |-> r.outcome,
              store |-> [companies |-> st.companies, people |-> r.table,
                         nextId |-> IF r.created
                                    THEN Drawn(st.nextId, PERSON)
                                    ELSE st.nextId]]
    ELSE [id |-> NoId, created |-> FALSE, outcome |-> "ValueError",
          store |-> st]

\* The run is cut where the id space of the model is used up.
IdAvailable(st) == Len(st.companies) + Len(st.people) <= MaxEntities

\* What `last` records of a link call.
CallRecord(m, r) ==
    [op |-> "link_entity", entity_type |-> m.entity_type, text |-> m.text,
     url |-> m.url, email |-> m.email, linkedin_url |-> m.linkedin_url,
     id |-> r.id, created |-> r.created, outcome |-> r.outcome]

\* One link call, run to completion (sequential use of the linker).
\* `observed` says whether the history variable `last` records the call.
LinkEntity(m, observed) ==
    LET r == link_entity(Store, m)
    IN  /\ IdAvailable(r.store)
        /\ companies' = r.store.companies
        /\ people' = r.store.people
        /\ nextId' = r.store.nextId
        /\ last' = IF observed THEN CallRecord(m, r) ELSE last
        /\ UNCHANGED <<interactions, artifacts, ingest, call, extraction, chunking,
                       chunk_table, vectors, search>>

\* ----------------------------------------------------------------- chunker
\* ChunkConfig, in tokens; chunk_text takes one token as four characters.
\* The model runs the chunker on a scaled-down configuration.
ChunkSize == 2
ChunkOverlap == 0
MinChunkSize == 0
CharsPerToken == 4

Whitespace == {" ", "\n"}

Max(a, b) == IF a >= b THEN a ELSE b

\* A slice index as Python reads it: a negative index counts from the end,
\* and the result is clipped to 0..n.
SliceIndex(i, n) == IF i < 0 THEN Max(i + n, 0) ELSE Min(i, n)

\* text[a:b]
Slice(text, a, b) ==
    LET lo == SliceIndex(a, Len(text))
        hi == SliceIndex(b, Len(text))
    IN  IF lo < hi THEN SubSeq(text, lo + 1, hi) ELSE <<>>

\* str.strip()
RECURSIVE LStrip(_)
LStrip(t) == IF t # <<>> /\ Head(t) \in Whitespace THEN LStrip(Tail(t)) ELSE t
RECURSIVE RStrip(_)
RStrip(t) ==
    IF t # <<>> /\ t[Len(t)] \in Whitespace
    THEN RStrip(SubSeq(t, 1, Len(t) - 1)) ELSE t
Strip(t) == RStrip(LStrip(t))

\* text.rfind(sep, start, end): the highest 0-based index i with
\* start <= i, i + len(sep) <= end (both read as slice indices) and
\* text[i:i+len(sep)] = sep, or -1.
RFind(text, sep, start, end) ==
    LET lo == SliceIndex(start, Len(text))
        hi == SliceIndex(end, Len(text))
        hits == {i \in lo..(hi - Len(sep)) :
                    SubSeq(text, i + 1, i + Len(sep)) = sep}
    IN  IF hits = {} THEN -1
        ELSE CHOOSE i \in hits : \A j \in hits : j <= i

SentenceSeps == << <<".", " ">>, <<"!", " ">>, <<"?", " ">>, <<"\n">> >>

\* for sep in [". ", "! ", "? ", "\n"]: the end set by the first separator
\* whose last occurrence lies beyond start + min_char_size, or end itself.
RECURSIVE SentenceEnd(_, _, _, _, _)
SentenceEnd(text, k, start, end, min_char_size) ==
    IF k > Len(SentenceSeps) THEN end
    ELSE LET sent_break == RFind(text, SentenceSeps[k], start, end)
         IN  IF sent_break > start + min_char_size
             THEN sent_break + Len(SentenceSeps[k])
             ELSE SentenceEnd(text, k + 1, start, end, min_char_size)

\* The cut position of the window that starts at start.
CutEnd(text, start, char_size, min_char_size) ==
    LET end == start + char_size
        para_break == RFind(text, <<"\n", "\n">>, start, end)
    IN  IF end < Len(text)
        THEN IF para_break > start + min_char_size
             THEN para_break
             ELSE SentenceEnd(text, 1, start, end, min_char_size)
        ELSE end

\* start = end - char_overlap, with a window start that jumps past the cut
NextStart_skipping(end, char_overlap) == end + 1

\* start = end - char_overlap
NextStart(end, char_overlap) == end - char_overlap

\* One iteration of the while loop for the window that starts at start:
\* its cut position, the chunks afterwards and the next window start.
LoopBody(text, start, chunks, char_size, char_overlap, min_char_size) ==
    LET end == CutEnd(text, start, char_size, min_char_size)
        chunk == Strip(Slice(text, start, end))
    IN  [end |-> end,
         chunks |-> IF chunk # <<>> THEN Append(chunks, chunk) ELSE chunks,
         start |-> NextStart(end, char_overlap)]

\* The while loop from window start `start` with `chunks` emitted so far
\* and the window starts `seen` before. The next start depends on the
\* start alone, so a window start that comes again repeats for ever: the
\* loop does not return.
RECURSIVE ChunkLoop(_, _, _, _, _, _, _)
ChunkLoop(text, start, chunks, seen, char_size, char_overlap, min_char_size) ==
    IF ~(start < Len(text)) THEN [chunks |-> chunks, returns |-> TRUE]
    ELSE LET b == LoopBody(text, start, chunks, char_size, char_overlap,
                           min_char_size)
         IN  IF b.start \in seen \cup {start}
             THEN [chunks |-> b.chunks, returns |-> FALSE]
             ELSE ChunkLoop(text, b.start, b.chunks, seen \cup {start},
                            char_size, char_overlap, min_char_size)

\* TextChunker.chunk_text(text) under configuration cfg (in tokens)
chunk_text(text, chunk_size, chunk_overlap, min_chunk_size) ==
    LET char_size == chunk_size * CharsPerToken
        char_overlap == chunk_overlap * CharsPerToken
        min_char_size == min_chunk_size * CharsPerToken
    IN  IF Len(text) <= char_size
        THEN [chunks |-> <<text>>, returns |-> TRUE]
        ELSE ChunkLoop(text, 0, <<>>, {}, char_size, char_overlap,
                       min_char_size)

\* The chunker used alone, one loop iteration at a time, on a drawn text
\* and a drawn configuration {chunk_size > 0, chunk_overlap >= 0,
\* min_chunk_size >= 0}.
MaxTextLen == 9
MaxChunkSize == 3
MaxChunkOverlap == 1
MaxMinChunkSize == 2
\* Loop iterations followed in one call.
MaxWindows == 6

\* Every text over a letter and the newline up to MaxTextLen characters,
\* and longer texts put together from two blocks of seven characters.
TextBlocks ==
    { <<"a", "a", "a", "a", "a", "a", "a">>,
      <<"a", "a", "a", "a", "a", "a", "\n">>,
      <<"a", "a", "a", "a", "a", "\n", "\n">>,
      <<"a", "a", "a", "a", ".", " ", "a">>,
      <<" ", "a", "!", " ", "a", "?", " ">> }

ChunkerTexts ==
    UNION { [1..n -> {"a", "\n"}] : n \in 0..MaxTextLen }
    \cup { b1 \o b2 : b1 \in TextBlocks, b2 \in TextBlocks }

NoChunking ==
    [pc |-> "none", text |-> <<>>, chunk_size |-> 1, chunk_overlap |-> 0,
     min_chunk_size |-> 0, start |-> 0, end |-> 0, chunks |-> <<>>,
     covered |-> {}, starts |-> {}, windows |-> 0]

\* chunk_text about to run on text under the configuration
PendingChunking(text, chunk_size, chunk_overlap, min_chunk_size) ==
    [NoChunking EXCEPT !.pc = "pending", !.text = text,
                       !.chunk_size = chunk_size,
                       !.chunk_overlap = chunk_overlap,
                       !.min_chunk_size = min_chunk_size]

\* The character positions of text[start:end]
Positions(text, start, end) ==
    SliceIndex(start, Len(text))..(SliceIndex(end, Len(text)) - 1)

\* chunk_text up to the while loop: the short text is returned as it is
ChunkCall ==
    /\ chunking.pc = "pending"
    /\ chunking' =
          IF Len(chunking.text) <= chunking.chunk_size * CharsPerToken
          THEN [chunking EXCEPT !.pc = "done", !.chunks = <<chunking.text>>]
          ELSE [chunking EXCEPT !.pc = "loop", !.start = 0, !.chunks = <<>>]
    /\ UNCHANGED <<companies, people, interactions, artifacts, nextId, last,
                   ingest, call, extraction,
                       chunk_table, vectors, search>>

\* One iteration of the while loop
ChunkStep ==
    LET b == LoopBody(chunking.text, chunking.start, chunking.chunks,
                      chunking.chunk_size * CharsPerToken,
                      chunking.chunk_overlap * CharsPerToken,
                      chunking.min_chunk_size * CharsPerToken)
    IN  /\ chunking.pc = "loop"
        /\ chunking.start < Len(chunking.text)
        /\ chunking.windows < MaxWindows
        /\ chunking' =
              [chunking EXCEPT
                  !.start = b.start, !.end = b.end, !.chunks = b.chunks,
                  !.covered = @ \cup Positions(chunking.text, chunking.start,
                                              b.end),
                  !.starts = @ \cup {chunking.start},
                  !.windows = @ + 1]
        /\ UNCHANGED <<companies, people, interactions, artifacts, nextId,
                       last, ingest, call, extraction,
                       chunk_table, vectors, search>>

\* The loop condition fails: return chunks
ChunkReturn ==
    /\ chunking.pc = "loop"
    /\ ~(chunking.start < Len(chunking.text))
    /\ chunking' = [chunking EXCEPT !.pc = "done"]
    /\ UNCHANGED <<companies, people, interactions, artifacts, nextId, last,
                   ingest, call, extraction,
                       chunk_table, vectors, search>>

\* ---------------------------------------------------------------- pipeline
\* Number of ingest calls (interactions and artifacts) in a run that also
\* makes link calls, and in a run of the pipeline alone.
MaxSources == 1
MaxIngests == 2

\* Raw texts: one that fits a single window, and one of blanks only that is
\* longer than a window (every chunk of it is dropped).
ShortText == <<"a", "b">>
BlankText == [i \in 1..(ChunkSize * CharsPerToken + 1) |-> " "]
Texts == {ShortText, BlankText}
\* A text longer than the target size that segments into two chunks.
TwoChunkText ==
    [i \in 1..(ChunkSize * CharsPerToken + 1) |->
        IF i <= Len(ShortText) THEN ShortText[i]
        ELSE IF i = ChunkSize * CharsPerToken + 1 THEN "a" ELSE " "]
PipelineTexts == Texts \cup {TwoChunkText}

\* Participants are named in lower case; a name may be listed twice.
ParticipantNames == { <<"a", "b">>, <<"b">> }

ParticipantLists ==
    UNION {[1..n -> ParticipantNames] : n \in 0..MaxParticipants}

\* What `ingest` records of a call: its arguments, the id of its
\* SourceRecord, how it ended, how many Company and Person records it
\* created, the id of the SourceRecord of the call before it and whether
\* that call had the same arguments; and the calls it made to the linker,
\* Storage, the embedding service, the extractor and the Vector Index, in
\* order, the per-chunk ones with the index of their chunk.
NoIngest ==
    [op |-> "none", participants |-> <<>>, text |-> <<>>, outcome |-> "none",
     id |-> NoId, created |-> 0, previous_id |-> NoId, repeats |-> FALSE,
     calls |-> <<>>]

SameCall(g, op, participants, text) ==
    g.op = op /\ g.participants = participants /\ g.text = text

\* Each ingest call draws one source id; a run is cut after a number of them.
SourcesDrawn == (nextId["interaction"] - 1) + (nextId["artifact"] - 1)

\* Step 1 of ingest_interaction: link_person(name=name) for each participant
\* in turn; the store afterwards and the ids collected.
LinkPersonCalls(participants) ==
    [k \in 1..Len(participants) |-> <<"link_person", participants[k]>>]

RECURSIVE LinkParticipants(_, _, _, _)
LinkParticipants(st, participants, k, ids) ==
    IF k > Len(participants) THEN [store |-> st, participant_ids |-> ids]
    ELSE LET r == link_entity(st, [entity_type |-> PERSON,
                                   text |-> participants[k], url |-> None,
                                   email |-> None, linkedin_url |-> None])
         IN  LinkParticipants(r.store, participants, k + 1, Append(ids, r.id))

\* interaction_participants has primary key (interaction_id, person_id): a
\* participant id listed twice makes the INSERT fail.
ParticipantConflict(ids) ==
    \E i, j \in 1..Len(ids) : i # j /\ ids[i] = ids[j]

\* RelationalStore.save_interaction: one transaction for the row and its
\* participant associations.
save_interaction(tbl, interaction) ==
    IF ParticipantConflict(interaction.participants)
    THEN [table |-> tbl, raised |-> TRUE]
    ELSE [table |-> Append(tbl, interaction), raised |-> FALSE]

\* Variant of save_artifact: the row is written only after the chunk loop,
\* which a failing chunk never leaves.
save_artifact_deferred(tbl, artifact) == [table |-> tbl, raised |-> FALSE]

\* RelationalStore.save_artifact
save_artifact(tbl, artifact) == [table |-> Append(tbl, artifact), raised |-> FALSE]

\* --------------------------------------------------------------- extractor
\* Names are over the letters a, b, c, o, t; a text is the sequence of its
\* whitespace-separated tokens, each described by what the four patterns
\* capture in it. Character offsets (start_pos, end_pos) are not modelled.
MaxTokens == 2
MaxLlmNames == 2

UpperCh(c) ==
    CASE c = "a" -> "A" [] c = "b" -> "B" [] c = "c" -> "C"
      [] c = "o" -> "O" [] c = "t" -> "T" [] OTHER -> c

Alpha == {"a", "b", "c", "o", "t", "A", "B", "C", "O", "T"}

\* str.title(): a letter is upper-cased after a non-letter, else lower-cased
Title(s) ==
    [i \in 1..Len(s) |->
        IF s[i] \notin Alpha THEN s[i]
        ELSE IF i > 1 /\ s[i - 1] \in Alpha THEN LowerCh(s[i])
        ELSE UpperCh(s[i])]

\* str.replace(old, new) for one-character old and new
Replace(s, old, new) == [i \in 1..Len(s) |-> IF s[i] = old THEN new ELSE s[i]]

\* re.split(r'[._]', s): the parts between separators, empty ones included
RECURSIVE Split(_, _)
Split(s, seps) ==
    IF \E i \in 1..Len(s) : s[i] \in seps
    THEN LET i == CHOOSE j \in 1..Len(s) :
                     s[j] \in seps /\ \A h \in 1..(j - 1) : s[h] \notin seps
         IN  <<SubSeq(s, 1, i - 1)>> \o Split(SubSeq(s, i + 1, Len(s)), seps)
    ELSE <<s>>

\* sep.join(parts)
RECURSIVE Join(_, _)
Join(parts, sep) ==
    IF Len(parts) = 0 THEN <<>>
    ELSE IF Len(parts) = 1 THEN parts[1]
    ELSE parts[1] \o sep \o Join(Tail(parts), sep)

EndsWith(s, suffix) ==
    /\ Len(s) >= Len(suffix)
    /\ SubSeq(s, Len(s) - Len(suffix) + 1, Len(s)) = suffix

com == <<"c", "o", "m">>
linkedin == <<"l", "i", "n", "k", "e", "d", "i", "n">>

skip_domains ==
    { <<linkedin, com>>,
      <<<<"g", "o", "o", "g", "l", "e">>, com>>,
      <<<<"g", "m", "a", "i", "l">>, com>>,
      <<<<"g", "i", "t", "h", "u", "b">>, com>>,
      <<<<"t", "w", "i", "t", "t", "e", "r">>, com>>,
      <<<<"x">>, com>> }

\* A token: a URL (with or without scheme; domain as its labels after an
\* optional www.; path /company/<slug>, /in/<slug> or none) or an email.
UrlToken(scheme, domain, path, slug) ==
    [kind |-> "url", scheme |-> scheme, domain |-> domain, path |-> path,
     slug |-> slug, local |-> <<>>]

EmailToken(local, domain) ==
    [kind |-> "email", scheme |-> FALSE, domain |-> domain, path |-> "none",
     slug |-> <<>>, local |-> local]

NoToken ==
    [kind |-> "none", scheme |-> FALSE, domain |-> <<>>, path |-> "none",
     slug |-> <<>>, local |-> <<>>]

Tokens ==
    { UrlToken(TRUE, << <<"a", "b">>, <<"c", "c">> >>, "none", <<>>),
      EmailToken(<<"a", "b">>, << <<"x">>, com >>),
      EmailToken(<<"a", ".", "b">>, << <<"x">>, com >>),
      UrlToken(TRUE, << linkedin, com >>, "company", <<"a", "-", "b">>),
      UrlToken(FALSE, << linkedin, com >>, "in", <<"a", "b">>) }

SeqsUpTo(S, n) == UNION { [1..k -> S] : k \in 0..n }

ExtractTexts == SeqsUpTo(Tokens, MaxTokens)

\* The content of the chat completion. json is what json.loads makes of it:
\* "invalid" (JSONDecodeError), "none" (content is None: TypeError), a
\* non-object JSON value, or "object" with the two fields.
Str(chars) == [is_str |-> TRUE, value |-> chars]
NonStr == [is_str |-> FALSE, value |-> <<>>]
Field(kind, items) == [kind |-> kind, items |-> items]
Missing == Field("missing", <<>>)

LlmCompanyItems ==
    {Str(<<"a", "b">>), Str(<<"A", "b">>), Str(<<" ">>), Str(<<"C", "T", "O">>)}
LlmPeopleItems == {Str(<<"A", "b">>), NonStr}

Fields(items) ==
    {Missing, Field("not_list", <<>>)}
    \cup {Field("list", l) : l \in SeqsUpTo(items, MaxLlmNames)}

RawOutputs ==
    [json : {"invalid", "none", "null", "number", "string", "bool", "list"},
     companies : {Missing}, people : {Missing}]
    \cup
    [json : {"object"}, companies : Fields(LlmCompanyItems),
     people : Fields(LlmPeopleItems)]

StringItems(field) ==
    LET items == IF field.kind = "list" THEN field.items ELSE <<>>
        IsName(c) == c.is_str /\ Strip(c.value) # <<>>
        kept == SelectSeq(items, IsName)
    IN  [i \in 1..Len(kept) |-> kept[i].value]

\* EntityExtractor._extract_with_llm, given the completion's content
extract_with_llm(raw) ==
    IF raw.json \in {"invalid", "none"}
    THEN [raised |-> "none", companies |-> <<>>, people |-> <<>>]
    ELSE IF raw.json # "object"
    THEN [raised |-> "AttributeError", companies |-> <<>>, people |-> <<>>]
    ELSE [raised |-> "none", companies |-> StringItems(raw.companies),
          people |-> StringItems(raw.people)]

NoMetadata == [key |-> "none", value |-> NoToken]

ExtractedEntity(text, entity_type, confidence, metadata) ==
    [text |-> text, entity_type |-> entity_type, confidence |-> confidence,
     metadata |-> metadata]

\* Keep that looks the name up as written, not lower-cased.
Keep_case_sensitive(st, e) ==
    IF e.text \in st.seen_names THEN st
    ELSE [entities |-> Append(st.entities, e),
          seen_names |-> st.seen_names \cup {Lower(e.text)}]

\* if name.lower() not in seen_names: seen_names.add(...); entities.append(...)
Keep(st, e) ==
    IF Lower(e.text) \in st.seen_names THEN st
    ELSE [entities |-> Append(st.entities, e),
          seen_names |-> st.seen_names \cup {Lower(e.text)}]

\* for name in llm_companies / llm_people: ... (confidence 0.9, in percent)
RECURSIVE AddLlmNames(_, _, _, _)
AddLlmNames(st, names, entity_type, k) ==
    IF k > Len(names) THEN st
    ELSE AddLlmNames(Keep(st, ExtractedEntity(names[k], entity_type, 90,
                                              NoMetadata)),
                     names, entity_type, k + 1)

\* EntityExtractor._extract_from_urls over the matches of URL_PATTERN
RECURSIVE extract_from_urls(_, _, _)
extract_from_urls(text, st, k) ==
    IF k > Len(text) THEN st
    ELSE LET match == text[k]
             domain == match.domain
             base_domain == SubSeq(domain, Len(domain) - 1, Len(domain))
             company_name == Title(domain[1])
         IN  IF ~(match.kind = "url" /\ match.scheme)
             THEN extract_from_urls(text, st, k + 1)
             ELSE IF base_domain \in skip_domains
             THEN extract_from_urls(text, st, k + 1)
             ELSE extract_from_urls(
                      text,
                      Keep(st, ExtractedEntity(company_name, COMPANY, 90,
                                   [key |-> "url", value |-> match])),
                      k + 1)

\* " ".join(p.title() for p in name_parts if len(p) > 1)
EmailName(local_part) ==
    LET name_parts == Split(local_part, {".", "_"})
        Long(p) == Len(p) > 1
        kept == SelectSeq(name_parts, Long)
    IN  Join([i \in 1..Len(kept) |-> Title(kept[i])], <<" ">>)

\* EntityExtractor._extract_from_emails over the matches of EMAIL_PATTERN
RECURSIVE extract_from_emails(_, _, _)
extract_from_emails(text, st, k) ==
    IF k > Len(text) THEN st
    ELSE LET match == text[k]
             name == EmailName(match.local)
         IN  IF match.kind = "email" /\ name # <<>>
             THEN extract_from_emails(
                      text,
                      Keep(st, ExtractedEntity(name, PERSON, 70,
                                   [key |-> "email", value |-> match])),
                      k + 1)
             ELSE extract_from_emails(text, st, k + 1)

\* LINKEDIN_COMPANY_PATTERN / LINKEDIN_PERSON_PATTERN match in a token
LinkedinMatch(tok, path) ==
    /\ tok.kind = "url"
    /\ Len(tok.domain) >= 2
    /\ tok.domain[Len(tok.domain)] = com
    /\ EndsWith(tok.domain[Len(tok.domain) - 1], linkedin)
    /\ tok.path = path

\* One loop of EntityExtractor._extract_from_linkedin
RECURSIVE LinkedinLoop(_, _, _, _, _)
LinkedinLoop(text, st, k, path, entity_type) ==
    IF k > Len(text) THEN st
    ELSE LET match == text[k]
             slug == match.slug
             name == Title(Replace(slug, "-", " "))
             linkedin_url == UrlToken(TRUE, <<linkedin, com>>, path, slug)
         IN  IF LinkedinMatch(match, path)
             THEN LinkedinLoop(
                      text,
                      Keep(st, ExtractedEntity(name, entity_type, 95,
                                   [key |-> "linkedin_url",
                                    value |-> linkedin_url])),
                      k + 1, path, entity_type)
             ELSE LinkedinLoop(text, st, k + 1, path, entity_type)

extract_from_linkedin(text, st) ==
    LinkedinLoop(text, LinkedinLoop(text, st, 1, "company", COMPANY), 1,
                 "in", PERSON)

\* Variant of Structured: the LinkedIn stage runs before the URL and email
\* stages.
Structured_linkedin_first(text, st) ==
    extract_from_emails(text,
        extract_from_urls(text, extract_from_linkedin(text, st), 1), 1)

\* The three regex stages of extract, in its order
Structured(text, st) ==
    extract_from_linkedin(text,
        extract_from_emails(text, extract_from_urls(text, st, 1), 1))

NoneSeen == [entities |-> <<>>, seen_names |-> {}]

\* EntityExtractor.extract: the outcome and the entities returned
extract(text, raw) ==
    LET llm == extract_with_llm(raw)
        llm_companies == AddLlmNames(NoneSeen, llm.companies, COMPANY, 1)
        llm_people == AddLlmNames(llm_companies, llm.people, PERSON, 1)
    IN  IF llm.raised # "none"
        THEN [outcome |-> llm.raised, entities |-> <<>>]
        ELSE [outcome |-> "ok",
              entities |-> Structured(text, llm_people).entities]

NoExtraction ==
    [op |-> "none", text |-> <<>>,
     raw |-> [json |-> "none", companies |-> Missing, people |-> Missing],
     outcome |-> "none", entities |-> <<>>]

\* An extract call about to run on the given text and completion content
Pending(text, raw) ==
    [op |-> "pending", text |-> text, raw |-> raw, outcome |-> "none",
     entities |-> <<>>]

\* await extractor.extract(text)
Extract ==
    LET r == extract(extraction.text, extraction.raw)
    IN  /\ extraction.op = "pending"
        /\ extraction' = [extraction EXCEPT !.op = "extract",
                                            !.outcome = r.outcome,
                                            !.entities = r.entities]
        /\ UNCHANGED <<companies, people, interactions, artifacts, nextId,
                       last, ingest, call, chunking,
                       chunk_table, vectors, search>>

\* -------------------------------------------------------- concurrent links
\* Two asyncio tasks, each running link calls on the shared store. A task
\* is suspended at each awaited Storage call; every other statement of
\* link_company / link_person runs without interruption.
Tasks == {"t1", "t2"}

\* Mentions linked concurrently: by name alone, or a company with a URL.
ConcurrentMentions ==
    {m \in Mentions : /\ m.entity_type \in {COMPANY, PERSON}
                      /\ m.linkedin_url = None /\ m.email = None
                      /\ m.url \in {None, "U1"}}

NoMention ==
    [entity_type |-> None, text |-> <<>>, url |-> None, email |-> None,
     linkedin_url |-> None]

Idle == [pc |-> "idle", m |-> NoMention, id |-> NoId, outcome |-> "none"]

Table(class) == IF class = COMPANY THEN companies ELSE people

\* The second structured identifier of a mention: url or email.
KeyOf(m) == IF m.entity_type = COMPANY THEN m.url ELSE m.email

\* A call returns id with the given outcome; the task is free again.
Returned(id, outcome) ==
    [pc |-> "idle", m |-> NoMention, id |-> id, outcome |-> outcome]

\* link_entity is called: the task runs up to its first awaited lookup.
CallLink(t, m) ==
    /\ call[t].pc = "idle"
    /\ m \in ConcurrentMentions
    /\ call' = [call EXCEPT ![t] = [pc |-> "by_linkedin", m |-> m,
                                    id |-> NoId, outcome |-> "none"]]
    /\ UNCHANGED <<companies, people, interactions, artifacts, nextId, last,
                   ingest, extraction, chunking,
                       chunk_table, vectors, search>>

\* await storage.get_*_by_linkedin(linkedin_url), when the mention has one
ByLinkedin(t) ==
    LET m == call[t].m
        existing == IF ~Truthy(m.linkedin_url) THEN NoRow
                    ELSE IF m.entity_type = COMPANY
                    THEN get_company_by_linkedin(companies, m.linkedin_url)
                    ELSE get_person_by_linkedin(people, m.linkedin_url)
    IN  /\ call[t].pc = "by_linkedin"
        /\ call' = [call EXCEPT ![t] =
                      IF existing # NoRow THEN Returned(existing[1].id, "ok")
                      ELSE [@ EXCEPT !.pc = "by_key"]]
        /\ UNCHANGED <<companies, people, interactions, artifacts, nextId,
                       last, ingest, extraction, chunking,
                       chunk_table, vectors, search>>

\* await storage.get_company_by_url(url) / get_person_by_email(email)
ByKey(t) ==
    LET m == call[t].m
        existing == IF ~Truthy(KeyOf(m)) THEN NoRow
                    ELSE IF m.entity_type = COMPANY
                    THEN get_company_by_url(companies, m.url)
                    ELSE get_person_by_email(people, m.email)
    IN  /\ call[t].pc = "by_key"
        /\ call' = [call EXCEPT ![t] =
                      IF existing # NoRow THEN Returned(existing[1].id, "ok")
                      ELSE [@ EXCEPT !.pc = "by_name"]]
        /\ UNCHANGED <<companies, people, interactions, artifacts, nextId,
                       last, ingest, extraction, chunking,
                       chunk_table, vectors, search>>

\* await storage.search_*_by_name(name); on a miss the new entity is
\* constructed (its uuid4 drawn) and the task is suspended in save_*.
ByName(t) ==
    LET m == call[t].m
        existing == IF m.entity_type = COMPANY
                    THEN search_companies_by_name(companies, m.text, SearchLimit)
                    ELSE search_people_by_name(people, m.text, SearchLimit)
    IN  /\ call[t].pc = "by_name"
        /\ IF existing # <<>>
           THEN /\ call' = [call EXCEPT ![t] = Returned(existing[1].id, "ok")]
                /\ UNCHANGED nextId
           ELSE /\ (nextId[COMPANY] - 1) + (nextId[PERSON] - 1) < MaxEntities
                /\ call' = [call EXCEPT ![t] =
                              [@ EXCEPT !.pc = "save",
                                        !.id = uuid4(nextId, m.entity_type)]]
                /\ nextId' = Drawn(nextId, m.entity_type)
        /\ UNCHANGED <<companies, people, interactions, artifacts, last,
                       ingest, extraction, chunking,
                       chunk_table, vectors, search>>

\* The row a suspended save is about to insert.
NewRow(c) ==
    IF c.m.entity_type = COMPANY
    THEN [id |-> c.id, name |-> c.m.text, url |-> c.m.url,
          linkedin_url |-> c.m.linkedin_url]
    ELSE [id |-> c.id, name |-> c.m.text, email |-> c.m.email,
          linkedin_url |-> c.m.linkedin_url]

\* SaveNew that searches the name again and inserts only on a second miss.
SaveNew_rechecked(c) ==
    LET existing == IF c.m.entity_type = COMPANY
                    THEN search_companies_by_name(companies, c.m.text, SearchLimit)
                    ELSE search_people_by_name(people, c.m.text, SearchLimit)
        saved == IF c.m.entity_type = COMPANY
                 THEN save_company(companies, NewRow(c))
                 ELSE save_person(people, NewRow(c))
    IN  IF existing # <<>>
        THEN [table |-> Table(c.m.entity_type),
              returned |-> Returned(existing[1].id, "ok")]
        ELSE [table |-> saved.table,
              returned |-> IF saved.raised
                           THEN Returned(NoId, "IntegrityError")
                           ELSE Returned(c.id, "ok")]

\* The saved table and the task afterwards.
SaveNew(c) ==
    LET saved == IF c.m.entity_type = COMPANY
                 THEN save_company(companies, NewRow(c))
                 ELSE save_person(people, NewRow(c))
    IN  [table |-> saved.table,
         returned |-> IF saved.raised THEN Returned(NoId, "IntegrityError")
                      ELSE Returned(c.id, "ok")]

\* await storage.save_company(company) / save_person(person); return
Save(t) ==
    LET r == SaveNew(call[t])
    IN  /\ call[t].pc = "save"
        /\ IF call[t].m.entity_type = COMPANY
           THEN companies' = r.table /\ UNCHANGED people
           ELSE people' = r.table /\ UNCHANGED companies
        /\ call' = [call EXCEPT ![t] = r.returned]
        /\ UNCHANGED <<interactions, artifacts, nextId, last, ingest,
                       extraction, chunking,
                       chunk_table, vectors, search>>

\* ------------------------------------------------ chunk store and retrieval
\* Number of chunks written in a run, and the largest `limit` of a search.
MaxChunks == 4
MaxLimit == 2

\* Embeddings are unit vectors in the plane, named by their angle in
\* quarter turns; the collection is created with hnsw:space = cosine.
\* The query texts of a search, the empty query among them.
Queries == {<<>>, ShortText}
\* Retriever.embedding_fn, when one is configured: the embedding of a query.
embedding_fn(query) == IF query = <<>> THEN 0 ELSE 2
Limits == 1..MaxLimit

\* default of search_by_company / search_by_person (limit=20)
SearchByEntityLimit == 20

\* VectorStoreConfig.metric
metric == "cosine"

\* Cosine distance 1 - cos of the angle between two unit vectors.
CosineDistance(a, b) ==
    LET turns == (a - b + 4) % 4
    IN  IF turns = 0 THEN 0 ELSE IF turns = 2 THEN 2 ELSE 1

\* The entities a chunk can be linked to: the first company and the first
\* person of the store.
CompanyId == <<COMPANY, 1>>
PersonId == <<PERSON, 1>>
Person2Id == <<PERSON, 2>>
\* An id that no Company, Person or Theme of the store carries.
UnknownId == <<"theme", 1>>
\* The chunks written, each by its entity ids and its embedding.
ChunkKinds ==
    {<<<<>>, 0>>, <<<<CompanyId>>, 0>>,
     <<<<Person2Id, UnknownId, CompanyId, PersonId>>, 1>>,
     <<<<CompanyId, PersonId>>, 2>>}
SourceId == <<"artifact", 1>>

\* Chunk.embedding is None until the chunk is embedded.
NoEmbedding == -1

\* Chunk(text=..., source_id=..., entity_ids=..., embedding=...)
Chunk(id, text, source_id, entity_ids, embedding) ==
    [id |-> id, text |-> text, source_id |-> source_id,
     entity_ids |-> entity_ids, embedding |-> embedding]

\* RelationalStore.save_chunk: the row and its chunk_entities associations
\* in one transaction; chunks.id and (chunk_id, entity_id) are primary keys.
save_chunk(tbl, chunk) ==
    IF \/ \E i \in 1..Len(tbl) : tbl[i].id = chunk.id
       \/ \E i, j \in 1..Len(chunk.entity_ids) :
             i # j /\ chunk.entity_ids[i] = chunk.entity_ids[j]
    THEN [table |-> tbl, raised |-> TRUE]
    ELSE [table |-> Append(tbl, [id |-> chunk.id, text |-> chunk.text,
                                 source_id |-> chunk.source_id,
                                 entity_ids |-> chunk.entity_ids]),
          raised |-> FALSE]

\* RelationalStore.get_chunks_by_source
get_chunks_by_source(tbl, source_id) ==
    SelectSeq(tbl, LAMBDA r : r.source_id = source_id)

\* RelationalStore.get_chunks_by_entity
get_chunks_by_entity(tbl, entity_id, limit) ==
    LET hits == SelectSeq(tbl, LAMBDA r :
                    \E i \in 1..Len(r.entity_ids) : r.entity_ids[i] = entity_id)
    IN  SubSeq(hits, 1, Min(limit, Len(hits)))

\* RelationalStore.get_company / get_person: the row with that id or None
get_by_id(tbl, id) == ScalarOneOrNone(SelectSeq(tbl, LAMBDA r : r.id = id))

\* str(uuid) is one word of 36 characters, none of them a bar; a metadata
\* string is a sequence of such words and bars.
Bar == <<"|", 0>>
UuidStr(id) == <<id>>
ParseUuid(word) == word[1]

\* "|" + "|".join(str(eid) for eid in chunk.entity_ids) + "|", or ""
EncodeEntityIds(entity_ids) ==
    IF Len(entity_ids) = 0 THEN <<>>
    ELSE <<Bar>> \o Join([i \in 1..Len(entity_ids) |-> UuidStr(entity_ids[i])],
                         <<Bar>>) \o <<Bar>>

\* s.strip("|")
RECURSIVE StripBars(_)
StripBars(s) ==
    IF s # <<>> /\ Head(s) = Bar THEN StripBars(Tail(s))
    ELSE IF s # <<>> /\ s[Len(s)] = Bar THEN StripBars(SubSeq(s, 1, Len(s) - 1))
    ELSE s

\* [UUID(p) for p in entity_ids_str.strip("|").split("|") if p], or []
DecodeEntityIds(entity_ids_str) ==
    IF entity_ids_str = <<>> THEN <<>>
    ELSE LET parts == SelectSeq(Split(StripBars(entity_ids_str), {Bar}),
                                LAMBDA p : p # <<>>)
         IN  [i \in 1..Len(parts) |-> ParseUuid(parts[i])]

\* VectorStore.upsert: ValueError without an embedding; otherwise the entry
\* with the chunk's id is replaced, or added.
upsert(coll, chunk) ==
    IF chunk.embedding = NoEmbedding THEN [collection |-> coll, raised |-> TRUE]
    ELSE LET entry == [id |-> chunk.id, embedding |-> chunk.embedding,
                       document |-> chunk.text,
                       source_id |-> chunk.source_id,
                       entity_ids |-> EncodeEntityIds(chunk.entity_ids)]
         IN  [collection |->
                  IF \E i \in 1..Len(coll) : coll[i].id = chunk.id
                  THEN [i \in 1..Len(coll) |->
                           IF coll[i].id = chunk.id THEN entry ELSE coll[i]]
                  ELSE Append(coll, entry),
              raised |-> FALSE]

\* collection.query(query_embeddings=[q], n_results=n): the n nearest
\* entries (all of them when there are fewer) in non-decreasing distance;
\* entries at the same distance come in any order. `among` is the set of
\* positions not yet returned.
RECURSIVE Nearest(_, _, _, _)
Nearest(coll, query_embedding, among, n) ==
    IF n = 0 \/ among = {} THEN {<<>>}
    ELSE LET dist(i) == CosineDistance(query_embedding, coll[i].embedding)
             nearest == {i \in among : \A j \in among : dist(i) <= dist(j)}
         IN  UNION {{<<[entry |-> coll[i], distance |-> dist(i)]>> \o rest :
                        rest \in Nearest(coll, query_embedding,
                                         among \ {i}, n - 1)} :
                    i \in nearest}

Query(coll, query_embedding, n_results) ==
    Nearest(coll, query_embedding, 1..Len(coll), n_results)

\* `fetch_limit = limit * 3 if filter_entity_ids else limit`
FetchLimit_unscaled(limit, filter_entity_ids) == limit

FetchLimit(limit, filter_entity_ids) ==
    IF Len(filter_entity_ids) > 0 THEN limit * 3 ELSE limit

\* `score = 1.0 - distance if self.config.metric == "cosine" else -distance`
Score_as_distance(distance) == distance

Score(distance) == IF metric = "cosine" THEN 1 - distance ELSE 0 - distance

\* `if filter_set: ... if not filter_set.intersection(chunk_entity_strs)`
Filtered(filter_entity_ids, entity_ids) ==
    /\ Len(filter_entity_ids) > 0
    /\ ~ \E i \in 1..Len(filter_entity_ids), j \in 1..Len(entity_ids) :
            UuidStr(filter_entity_ids[i]) = UuidStr(entity_ids[j])

\* The loop of VectorStore.search over the hits of the query, from hit i on.
RECURSIVE SearchLoop(_, _, _, _, _)
SearchLoop(hits, i, limit, filter_entity_ids, search_results) ==
    IF i > Len(hits) THEN search_results
    ELSE LET entity_ids == DecodeEntityIds(hits[i].entry.entity_ids)
         IN  IF Filtered(filter_entity_ids, entity_ids)
             THEN SearchLoop(hits, i + 1, limit, filter_entity_ids,
                             search_results)
             ELSE LET result == [chunk |-> [id |-> hits[i].entry.id,
                                            text |-> hits[i].entry.document,
                                            source_id |-> hits[i].entry.source_id,
                                            entity_ids |-> entity_ids],
                                 score |-> Score(hits[i].distance)]
                      appended == Append(search_results, result)
                  IN  IF Len(appended) >= limit THEN appended
                      ELSE SearchLoop(hits, i + 1, limit, filter_entity_ids,
                                      appended)

\* VectorStore.search on the hits the query returned; filter_entity_ids is
\* the empty list for None.
vector_search(hits, limit, filter_entity_ids) ==
    SearchLoop(hits, 1, limit, filter_entity_ids, <<>>)

\* Retriever._enrich_result: each entity id is looked up as a company, then
\* as a person, then as a theme (no Theme is ever stored); the last company
\* found, the people found, in order, and the Storage lookups made.
\* Variant of the enrichment loop: the Person lookup runs before the
\* Company lookup.
RECURSIVE EnrichLoop_person_first(_, _, _, _, _)
EnrichLoop_person_first(entity_ids, k, company, found_people, lookups) ==
    IF k > Len(entity_ids)
    THEN [company |-> company, people |-> found_people, calls |-> lookups]
    ELSE LET c == get_by_id(companies, entity_ids[k])
             p == get_by_id(people, entity_ids[k])
         IN  IF p # NoRow
             THEN EnrichLoop_person_first(
                      entity_ids, k + 1, company, found_people \o p,
                      lookups \o <<<<"get_person", entity_ids[k]>>>>)
             ELSE IF c # NoRow
             THEN EnrichLoop_person_first(
                      entity_ids, k + 1, c, found_people,
                      lookups \o <<<<"get_person", entity_ids[k]>>,
                                   <<"get_company", entity_ids[k]>>>>)
             ELSE EnrichLoop_person_first(
                      entity_ids, k + 1, company, found_people,
                      lookups \o <<<<"get_person", entity_ids[k]>>,
                                   <<"get_company", entity_ids[k]>>,
                                   <<"get_theme", entity_ids[k]>>>>)

RECURSIVE EnrichLoop(_, _, _, _, _)
EnrichLoop(entity_ids, k, company, found_people, lookups) ==
    IF k > Len(entity_ids)
    THEN [company |-> company, people |-> found_people, calls |-> lookups]
    ELSE LET c == get_by_id(companies, entity_ids[k])
             p == get_by_id(people, entity_ids[k])
         IN  IF c # NoRow
             THEN EnrichLoop(entity_ids, k + 1, c, found_people,
                             lookups \o <<<<"get_company", entity_ids[k]>>>>)
             ELSE IF p # NoRow
             THEN EnrichLoop(entity_ids, k + 1, company, found_people \o p,
                             lookups \o <<<<"get_company", entity_ids[k]>>,
                                          <<"get_person", entity_ids[k]>>>>)
             ELSE EnrichLoop(entity_ids, k + 1, company, found_people,
                             lookups \o <<<<"get_company", entity_ids[k]>>,
                                          <<"get_person", entity_ids[k]>>,
                                          <<"get_theme", entity_ids[k]>>>>)

enrich_result(result) ==
    LET found == EnrichLoop(result.chunk.entity_ids, 1, NoRow, <<>>, <<>>)
    IN  [chunk |-> result.chunk, score |-> result.score,
         company |-> found.company, people |-> found.people,
         calls |-> found.calls]

\* The Storage lookups of the enrichment of results 1..n, in order.
RECURSIVE EnrichCalls(_, _)
EnrichCalls(enriched, n) ==
    IF n = 0 THEN <<>>
    ELSE EnrichCalls(enriched, n - 1) \o enriched[n].calls

\* `if self.embedding_fn is None`
Unconfigured_never(fn) == FALSE
Unconfigured(fn) == fn = None

\* `filter_ids` of semantic_search; NoId stands for a filter that is None.
FilterIds(filter_company_id, filter_person_id) ==
    (IF filter_company_id # NoId THEN <<filter_company_id>> ELSE <<>>)
    \o (IF filter_person_id # NoId THEN <<filter_person_id>> ELSE <<>>)

\* What `search` records of a retrieval call: the operation, the query, the
\* embedding function of the Retriever, the query embedding, the limit and
\* the filter ids, the ids the index returned, the calls made to the
\* embedding function, the index and Storage, how the call ended and the
\* results it returned.
NoSearch ==
    [op |-> "none", query |-> <<>>, embedding_fn |-> None,
     query_embedding |-> NoEmbedding, limit |-> 0, filter |-> <<>>,
     fetched |-> <<>>, calls |-> <<>>, outcome |-> "none", results |-> <<>>]

\* A call not yet made. For semantic_search `filter` holds the pair
\* filter_company_id, filter_person_id until the call builds filter_ids.
PendingSearch(op, query, fn, limit, filter) ==
    [op |-> op, query |-> query, embedding_fn |-> fn,
     query_embedding |-> NoEmbedding, limit |-> limit, filter |-> filter,
     fetched |-> <<>>, calls |-> <<>>, outcome |-> "pending",
     results |-> <<>>]

Fetched(hits) == [i \in 1..Len(hits) |-> hits[i].entry.id]

\* Chunks written to both stores one after the other, as step 5 of the
\* chunk loop writes a chunk: storage.save_chunk(chunk), then
\* vector_store.upsert(chunk). Each chunk has a fresh id; written[k] is
\* the pair of its entity ids and its embedding.
RECURSIVE WriteChunks(_, _, _, _)
WriteChunks(written, k, tbl, coll) ==
    IF k > Len(written) THEN [chunk_table |-> tbl, vectors |-> coll]
    ELSE LET chunk == Chunk(<<"chunk", k>>, ShortText, SourceId,
                            written[k][1], written[k][2])
             saved == save_chunk(tbl, chunk)
             upserted == upsert(coll, chunk)
         IN  IF saved.raised THEN [chunk_table |-> tbl, vectors |-> coll]
             ELSE WriteChunks(written, k + 1, saved.table,
                              upserted.collection)

\* Retriever.semantic_search(query, limit, filter_company_id,
\* filter_person_id): without an embedding function it raises ValueError;
\* otherwise it embeds the query, builds filter_ids, searches the index and
\* enriches each result.
SemanticSearch ==
    /\ search.op = "semantic_search" /\ search.outcome = "pending"
    /\ IF Unconfigured(search.embedding_fn)
       THEN search' = [search EXCEPT !.outcome = "ValueError"]
       ELSE LET query_embedding == embedding_fn(search.query)
                filter_ids == FilterIds(search.filter[1], search.filter[2])
            IN  \E hits \in Query(vectors, query_embedding,
                                  FetchLimit(search.limit, filter_ids)) :
                \E results \in {vector_search(hits, search.limit,
                                               filter_ids)} :
                \E enriched \in {[i \in 1..Len(results) |->
                                     enrich_result(results[i])]} :
                        search' = [search EXCEPT
                                      !.query_embedding = query_embedding,
                                      !.filter = filter_ids,
                                      !.fetched = Fetched(hits),
                                      !.calls =
                                          <<<<"embedding_fn", search.query>>,
                                            <<"vector_store.search",
                                              FetchLimit(search.limit,
                                                         filter_ids)>>>>
                                          \o EnrichCalls(enriched,
                                                         Len(enriched)),
                                      !.outcome = "ok",
                                      !.results = enriched]
    /\ UNCHANGED <<companies, people, interactions, artifacts, nextId, last,
                   ingest, call, extraction, chunking, chunk_table, vectors>>

\* Retriever.search_by_company: not implemented.
SearchByCompany ==
    /\ search.op = "search_by_company" /\ search.outcome = "pending"
    /\ search' = [search EXCEPT !.outcome = "NotImplementedError"]
    /\ UNCHANGED <<companies, people, interactions, artifacts, nextId, last,
                   ingest, call, extraction, chunking, chunk_table, vectors>>

\* Retriever.search_by_person: not implemented.
SearchByPerson ==
    /\ search.op = "search_by_person" /\ search.outcome = "pending"
    /\ search' = [search EXCEPT !.outcome = "NotImplementedError"]
    /\ UNCHANGED <<companies, people, interactions, artifacts, nextId, last,
                   ingest, call, extraction, chunking, chunk_table, vectors>>

\* ---------------------------------------------------- the ingest calls
\* `extracted = self.entity_extractor.extract(chunk_text)`: extract is a
\* coroutine function and the loop calls it without await, so the value is
\* a coroutine object, whatever the text.
Extracted(text) == [coroutine |-> TRUE, entities |-> <<>>]

\* EmbeddingService.embed_batch: one embedding per text.
embed_batch(texts) == [i \in 1..Len(texts) |-> 0]

\* `embeddings = await self.embedding_service.embed_batch(all_chunk_texts)`:
\* one call for all the chunk texts of the record.
EmbedCalls_per_chunk(chunk_texts) ==
    [i \in 1..Len(chunk_texts) |-> <<"embed_batch", <<chunk_texts[i]>>>>]
EmbedCalls(chunk_texts) == <<<<"embed_batch", chunk_texts>>>>

\* The link_entity calls of chunk i - 1, one per extracted entity.
LinkEntityCalls(entities, i) ==
    [k \in 1..Len(entities) |-> <<"link_entity", i - 1>>]

\* The per-chunk loop of both ingest paths from chunk i on (1-based), in
\* the stores st. `for ext in extracted` on a coroutine object raises
\* TypeError before anything is linked or written. Otherwise the extracted
\* entities are linked, their distinct ids collected, and the chunk is
\* written to Storage and then to the Vector Index.
RECURSIVE LinkExtracted(_, _, _, _)
LinkExtracted(st, entities, k, entity_ids) ==
    IF k > Len(entities) THEN [store |-> st, entity_ids |-> entity_ids]
    ELSE LET r == link_entity(st, entities[k])
         IN  LinkExtracted(r.store, entities, k + 1,
                           IF \E h \in 1..Len(entity_ids) :
                                 entity_ids[h] = r.id
                           THEN entity_ids ELSE Append(entity_ids, r.id))

RECURSIVE ProcessChunks(_, _, _, _, _)
ProcessChunks(chunk_texts, embeddings, i, source_id, st) ==
    IF i > Len(chunk_texts) THEN [st EXCEPT !.outcome = "ok"]
    ELSE LET extracted == Extracted(chunk_texts[i])
         IN  IF extracted.coroutine
             THEN [st EXCEPT !.outcome = "TypeError",
                             !.calls = Append(@, <<"extract", i - 1>>)]
             ELSE LET linked == LinkExtracted(st.store, extracted.entities,
                                              1, <<>>)
                      chunk == Chunk(uuid4(linked.store.nextId, "chunk"),
                                     chunk_texts[i], source_id,
                                     linked.entity_ids, embeddings[i])
                      saved == save_chunk(st.chunk_table, chunk)
                      upserted == upsert(st.vectors, chunk)
                      drawn == [linked.store EXCEPT
                                   !.nextId = Drawn(@, "chunk")]
                      calls == st.calls \o <<<<"extract", i - 1>>>>
                                  \o LinkEntityCalls(extracted.entities, i)
                                  \o <<<<"save_chunk", i - 1>>>>
                  IN  IF saved.raised
                      THEN [st EXCEPT !.store = drawn, !.calls = calls,
                                      !.outcome = "IntegrityError"]
                      ELSE IF upserted.raised
                      THEN [st EXCEPT !.store = drawn,
                                      !.chunk_table = saved.table,
                                      !.calls = Append(calls,
                                                       <<"upsert", i - 1>>),
                                      !.outcome = "ValueError"]
                      ELSE ProcessChunks(
                               chunk_texts, embeddings, i + 1, source_id,
                               [st EXCEPT !.store = drawn,
                                          !.chunk_table = saved.table,
                                          !.vectors = upserted.collection,
                                          !.calls = Append(calls,
                                                       <<"upsert", i - 1>>)])

\* What follows the SourceRecord write: chunk_text under the pipeline's
\* chunker, embed_batch, then the per-chunk loop. A chunker that does not
\* return leaves the ingest hanging after the SourceRecord write.
AfterSourceWrite(text, source_id, st) ==
    LET c == chunk_text(text, ChunkSize, ChunkOverlap, MinChunkSize)
        stores == [store |-> st, chunk_table |-> chunk_table,
                   vectors |-> vectors, outcome |-> "none", calls |-> <<>>]
    IN  IF c.returns
        THEN ProcessChunks(c.chunks, embed_batch(c.chunks), 1, source_id,
                           [stores EXCEPT !.calls = EmbedCalls(c.chunks)])
        ELSE [stores EXCEPT !.outcome = "hangs"]

\* IngestionPipeline.ingest_interaction (also reached through ingest_email
\* and ingest_meeting_notes, which pass sender + recipients / attendees).
IngestInteraction(participants, text) ==
    LET linked == LinkParticipants(Store, participants, 1, <<>>)
        id == uuid4(nextId, "interaction")
        interaction == [id |-> id, raw_text |-> text,
                        participants |-> linked.participant_ids]
        saved == save_interaction(interactions, interaction)
        drawn == [linked.store EXCEPT !.nextId = Drawn(@, "interaction")]
    IN  \E after \in {IF saved.raised
                      THEN [store |-> drawn, chunk_table |-> chunk_table,
                            vectors |-> vectors, outcome |-> "IntegrityError",
                            calls |-> <<>>]
                      ELSE AfterSourceWrite(text, id, drawn)} :
        /\ IdAvailable(after.store)
        /\ companies' = after.store.companies
        /\ people' = after.store.people
        /\ nextId' = after.store.nextId
        /\ interactions' = saved.table
        /\ chunk_table' = after.chunk_table
        /\ vectors' = after.vectors
        /\ ingest' = [op |-> "ingest_interaction",
                      participants |-> participants, text |-> text,
                      outcome |-> after.outcome,
                      id |-> id,
                      created |-> (Len(after.store.people) - Len(people))
                                  + (Len(after.store.companies)
                                     - Len(companies)),
                      previous_id |-> ingest.id,
                      repeats |-> SameCall(ingest, "ingest_interaction",
                                           participants, text),
                      calls |-> LinkPersonCalls(participants)
                                \o <<<<"save_interaction", id>>>>
                                \o after.calls]
        /\ UNCHANGED <<artifacts, last, call, extraction, chunking, search>>

\* IngestionPipeline.ingest_artifact
IngestArtifact(text) ==
    LET id == uuid4(nextId, "artifact")
        saved == save_artifact(artifacts, [id |-> id, raw_text |-> text])
        drawn == [Store EXCEPT !.nextId = Drawn(@, "artifact")]
    IN  \E after \in {AfterSourceWrite(text, id, drawn)} :
        /\ IdAvailable(after.store)
        /\ artifacts' = saved.table
        /\ companies' = after.store.companies
        /\ people' = after.store.people
        /\ nextId' = after.store.nextId
        /\ chunk_table' = after.chunk_table
        /\ vectors' = after.vectors
        /\ ingest' = [op |-> "ingest_artifact", participants |-> <<>>,
                      text |-> text, outcome |-> after.outcome,
                      id |-> id,
                      created |-> (Len(after.store.people) - Len(people))
                                  + (Len(after.store.companies)
                                     - Len(companies)),
                      previous_id |-> ingest.id,
                      repeats |-> SameCall(ingest, "ingest_artifact",
                                           <<>>, text),
                      calls |-> <<<<"save_artifact", id>>>> \o after.calls]
        /\ UNCHANGED <<interactions, last, call, extraction, chunking,
                       search>>

\* An empty store; no call made yet.
InitStore ==
    /\ companies = <<>>
    /\ people = <<>>
    /\ interactions = <<>>
    /\ artifacts = <<>>
    /\ nextId = [c \in IdClasses |-> 1]
    /\ last = NoCall
    /\ ingest = NoIngest
    /\ call = [p \in Tasks |-> Idle]
    /\ chunk_table = <<>>
    /\ vectors = <<>>
    /\ search = NoSearch

Init == InitStore /\ extraction = NoExtraction /\ chunking = NoChunking

\* The linker used alone; `last` observes each call.
Next ==
    \E m \in Mentions : LinkEntity(m, TRUE)

Spec == Init /\ [][Next]_vars

\* Link calls and ingests, one after the other. The link calls name their
\* entity in lower case and know one canonical URL and one company name.
IngestMentions ==
    {m \in Mentions :
        /\ m.text # <<"A", "b">>
        /\ m.url # "U2"
        /\ m.entity_type = COMPANY => m.text = <<"a", "b">>}

NextIngest ==
    \/ \E m \in IngestMentions : LinkEntity(m, FALSE)
    \/ /\ SourcesDrawn < MaxSources
       /\ \E ps \in ParticipantLists, text \in Texts :
              IngestInteraction(ps, text)
    \/ /\ SourcesDrawn < MaxSources
       /\ \E text \in Texts : IngestArtifact(text)

SpecIngest == Init /\ [][NextIngest]_vars

\* The pipeline used alone: ingest calls one after the other.
NextPipeline ==
    \/ /\ SourcesDrawn < MaxIngests
       /\ \E ps \in ParticipantLists, text \in PipelineTexts :
              IngestInteraction(ps, text)
    \/ /\ SourcesDrawn < MaxIngests
       /\ \E text \in PipelineTexts : IngestArtifact(text)

SpecPipeline == Init /\ [][NextPipeline]_vars

\* Link calls of two tasks, interleaved at the Storage calls.
NextConcurrent ==
    \E t \in Tasks :
        \/ \E m \in ConcurrentMentions : CallLink(t, m)
        \/ ByLinkedin(t)
        \/ ByKey(t)
        \/ ByName(t)
        \/ Save(t)

SpecConcurrent == Init /\ [][NextConcurrent]_vars

\* The extractor used alone: one extract call on a drawn text and a drawn
\* content of the chat completion.
InitExtract ==
    /\ InitStore
    /\ chunking = NoChunking
    /\ extraction \in {Pending(text, raw) : text \in ExtractTexts,
                                            raw \in RawOutputs}

NextExtract == Extract

SpecExtract == InitExtract /\ [][NextExtract]_vars

\* The chunker used alone: one chunk_text call.
InitChunk ==
    /\ InitStore
    /\ extraction = NoExtraction
    /\ chunking \in {PendingChunking(text, size, overlap, min) :
                        text \in ChunkerTexts, size \in 1..MaxChunkSize,
                        overlap \in 0..MaxChunkOverlap,
                        min \in 0..MaxMinChunkSize}

NextChunk == ChunkCall \/ ChunkStep \/ ChunkReturn

SpecChunk == InitChunk /\ [][NextChunk]_vars

\* Retrieval used alone: one call on a store that holds one company, one
\* person and the chunks written so far.
WrittenChunks ==
    SeqsUpTo(ChunkKinds, MaxChunks)

SearchCalls ==
    {PendingSearch("semantic_search", query, "embed", limit, <<c, p>>) :
        query \in Queries, limit \in Limits,
        c \in {NoId, CompanyId}, p \in {NoId, PersonId}}
    \cup
    {PendingSearch("semantic_search", query, None, 1, <<c, NoId>>) :
        query \in Queries, c \in {NoId, CompanyId}}
    \cup
    {PendingSearch("search_by_company", <<>>, "embed", SearchByEntityLimit,
                   <<CompanyId>>),
     PendingSearch("search_by_person", <<>>, "embed", SearchByEntityLimit,
                   <<PersonId>>)}

InitSearch ==
    /\ companies = <<[id |-> CompanyId, name |-> <<"a", "b">>, url |-> None,
                      linkedin_url |-> None]>>
    /\ people = <<[id |-> PersonId, name |-> <<"b">>, email |-> None,
                   linkedin_url |-> None],
                  [id |-> Person2Id, name |-> <<"a">>, email |-> None,
                   linkedin_url |-> None]>>
    /\ interactions = <<>>
    /\ artifacts = <<>>
    /\ last = NoCall
    /\ ingest = NoIngest
    /\ call = [p \in Tasks |-> Idle]
    /\ extraction = NoExtraction
    /\ chunking = NoChunking
    /\ \E written \in WrittenChunks :
          LET stores == WriteChunks(written, 1, <<>>, <<>>)
          IN  /\ chunk_table = stores.chunk_table
              /\ vectors = stores.vectors
              /\ nextId = [c \in IdClasses |->
                              IF c = COMPANY THEN 2
                              ELSE IF c = PERSON THEN 3
                              ELSE IF c = "chunk" THEN Len(written) + 1
                              ELSE 1]
    /\ search \in SearchCalls

NextSearch ==
    SemanticSearch \/ SearchByCompany \/ SearchByPerson

SpecSearch == InitSearch /\ [][NextSearch]_vars

\* ====================================================== claims: the linker
\* The mention of a recorded call.
SameContent(a, b) ==
    /\ a.entity_type = b.entity_type
    /\ a.text = b.text
    /\ a.url = b.url
    /\ a.email = b.email
    /\ a.linkedin_url = b.linkedin_url

\* In a step of Spec, `last` is the previous call and last' the call made
\* in the step; both completed.
TwoCalls ==
    /\ last.op = "link_entity" /\ last.outcome = "ok"
    /\ last'.op = "link_entity" /\ last'.outcome = "ok"

Rows(tbl) == {tbl[i] : i \in 1..Len(tbl)}

\* C1: two successive link calls whose mentions carry the same LinkedIn URL
\* (or, for people, the same email) return the same entity id, whatever the
\* surface names and whatever else is stored.
C1_SameIdentifierSameEntity ==
    [][ ( /\ TwoCalls
          /\ last'.entity_type = last.entity_type
          /\ \/ last.linkedin_url # None /\ last'.linkedin_url = last.linkedin_url
             \/ /\ last.entity_type = PERSON
                /\ last.email # None /\ last'.email = last.email )
        => last'.id = last.id ]_vars

\* The URL was not stored before the previous call: no row carries it, or
\* the only row that does was created by that call.
UrlNewToPreviousCall(u) ==
    \A r \in Rows(companies) : r.url = u => (last.created /\ r.id = last.id)

SameNameOtherUrl ==
    /\ TwoCalls
    /\ last.entity_type = COMPANY /\ last'.entity_type = COMPANY
    /\ last'.text = last.text
    /\ last.url # None /\ last'.url # None /\ last'.url # last.url
    /\ UrlNewToPreviousCall(last.url) /\ UrlNewToPreviousCall(last'.url)

\* C2 as stated: two company mentions with the same surface name and
\* different canonical URLs, neither stored before the first call, resolve
\* to two distinct entities.
C2_SameNameOtherUrlDistinct ==
    [][ SameNameOtherUrl => last'.id # last.id ]_vars

\* C2 as amended: when both mentions carry the same LinkedIn URL or none,
\* the second call falls through to the name search and returns the entity
\* the first call returned; it creates no record and the second URL is not
\* stored.
C2_SameNameOtherUrlMerged ==
    [][ (SameNameOtherUrl /\ last'.linkedin_url = last.linkedin_url)
        => /\ last'.id = last.id
           /\ ~last'.created
           /\ companies' = companies ]_vars

\* The last call returned an existing company that has the mention's name
\* and another URL than the mention's.
C2_Witness ==
    /\ last.op = "link_entity" /\ last.entity_type = COMPANY
    /\ last.outcome = "ok" /\ ~last.created
    /\ last.url # None /\ last.linkedin_url = None
    /\ \E r \in Rows(companies) :
          /\ r.id = last.id /\ r.name = last.text
          /\ r.url # None /\ r.url # last.url /\ r.linkedin_url = None
    /\ \A r \in Rows(companies) : r.url # last.url

\* C3: link is idempotent: a second call with identical mention content
\* returns the id of the first and creates no record.
C3_Idempotent ==
    [][ (TwoCalls /\ SameContent(last', last))
        => /\ last'.id = last.id
           /\ ~last'.created
           /\ companies' = companies /\ people' = people ]_vars

\* The last call returned, without creating it, a record whose content is
\* the mention's: the record an earlier identical call created.
C3_Witness ==
    /\ last.op = "link_entity" /\ last.outcome = "ok" /\ ~last.created
    /\ \/ /\ last.entity_type = COMPANY
          /\ \E r \in Rows(companies) :
                /\ r.id = last.id /\ r.name = last.text
                /\ r.url = last.url /\ r.linkedin_url = last.linkedin_url
       \/ /\ last.entity_type = PERSON
          /\ \E r \in Rows(people) :
                /\ r.id = last.id /\ r.name = last.text
                /\ r.email = last.email /\ r.linkedin_url = last.linkedin_url

\* The rows of a table that a lookup key selects, and the first row (in
\* table order) whose name contains the mention's name.
WithLinkedin(tbl, l) == {r \in Rows(tbl) : l # None /\ r.linkedin_url = l}
WithUrl(tbl, u) == {r \in Rows(tbl) : u # None /\ r.url = u}
WithEmail(tbl, e) == {r \in Rows(tbl) : e # None /\ r.email = e}
NameHits(tbl, n) == {i \in 1..Len(tbl) : ILikeContains(tbl[i].name, n)}
FirstNameHit(tbl, n) ==
    tbl[CHOOSE i \in NameHits(tbl, n) : \A j \in NameHits(tbl, n) : i <= j]

\* The resolution order for a call on mention c against table tbl, whose
\* rows selected by the structured identifiers are byLinkedin and byKey.
ResolvedInOrder(c, tbl, byLinkedin, byKey) ==
    /\ byLinkedin # {} => (~c.created /\ \E r \in byLinkedin : c.id = r.id)
    /\ (byLinkedin = {} /\ byKey # {})
          => (~c.created /\ \E r \in byKey : c.id = r.id)
    /\ (byLinkedin = {} /\ byKey = {} /\ NameHits(tbl, c.text) # {})
          => (~c.created /\ c.id = FirstNameHit(tbl, c.text).id)
    /\ c.created <=> (byLinkedin = {} /\ byKey = {} /\ NameHits(tbl, c.text) = {})

\* C4: resolution order, first match wins: LinkedIn URL, then canonical URL
\* (company) or email (person), then the name search; a record is created
\* only when all of them miss.
C4_ResolutionOrder ==
    [][ (last'.op = "link_entity" /\ last'.outcome = "ok")
        => /\ last'.entity_type = COMPANY
                => ResolvedInOrder(last', companies,
                                   WithLinkedin(companies, last'.linkedin_url),
                                   WithUrl(companies, last'.url))
           /\ last'.entity_type = PERSON
                => ResolvedInOrder(last', people,
                                   WithLinkedin(people, last'.linkedin_url),
                                   WithEmail(people, last'.email)) ]_vars

\* The last call returned the company that has the mention's LinkedIn URL
\* although another company has the mention's URL and the mention's name.
C4_Witness ==
    /\ last.op = "link_entity" /\ last.entity_type = COMPANY
    /\ last.outcome = "ok" /\ ~last.created
    /\ \E a, b \in Rows(companies) :
          /\ a.id # b.id
          /\ a.linkedin_url = last.linkedin_url /\ last.linkedin_url # None
          /\ b.url = last.url /\ last.url # None
          /\ ILikeContains(b.name, last.text)
          /\ last.id = a.id

\* C6: once an entity with canonical URL U (company) or email E (person)
\* is stored, every later call whose mention carries U (resp. E) and no
\* LinkedIn URL returns that entity and creates no record, whatever the
\* surface name.
C6_KeyResolvesToCreated ==
    [][ (last'.op = "link_entity" /\ last'.linkedin_url = None)
        => /\ \A r \in Rows(companies) :
                (last'.entity_type = COMPANY /\ last'.url # None
                     /\ r.url = last'.url)
                => /\ last'.outcome = "ok" /\ last'.id = r.id
                   /\ ~last'.created /\ companies' = companies
           /\ \A r \in Rows(people) :
                (last'.entity_type = PERSON /\ last'.email # None
                     /\ r.email = last'.email)
                => /\ last'.outcome = "ok" /\ last'.id = r.id
                   /\ ~last'.created /\ people' = people ]_vars

\* The last call, on a name that matches no stored person, returned the
\* person stored with the mention's email.
C6_Witness ==
    /\ last.op = "link_entity" /\ last.entity_type = PERSON
    /\ last.outcome = "ok" /\ ~last.created
    /\ last.email # None /\ last.linkedin_url = None
    /\ \E r \in Rows(people) : r.id = last.id /\ r.email = last.email
    /\ NameHits(people, last.text) = {}

\* tbl2 holds every row of tbl, unchanged and at the same place.
Kept(tbl, tbl2) ==
    /\ Len(tbl2) >= Len(tbl)
    /\ \A i \in 1..Len(tbl) : tbl2[i] = tbl[i]

\* C25: no call deletes a stored Company or Person or changes one of its
\* fields, and a link call that creates nothing leaves both tables as they
\* were, whatever identifiers its mention carries.
C25_LinkKeepsEntities ==
    [][/\ Kept(companies, companies')
       /\ Kept(people, people')
       /\ ~last'.created => (companies' = companies /\ people' = people)]_vars

\* A company mention that carries a URL has been resolved by name to a
\* company that has no URL, and the company still has none.
C25_Witness ==
    /\ last.op = "link_entity" /\ last.outcome = "ok" /\ ~last.created
    /\ last.entity_type = COMPANY
    /\ last.url # None
    /\ \E c \in Rows(companies) : c.id = last.id /\ c.url = None

UniqueNames ==
    /\ \A i, j \in 1..Len(people) :
          i # j => Lower(people[i].name) # Lower(people[j].name)
    /\ \A i, j \in 1..Len(companies) :
          i # j => Lower(companies[i].name) # Lower(companies[j].name)

\* The people a text mentions by name: the text "ab" names the person ab,
\* a blank text names nobody.
PeopleMentionedIn(text) == IF text = ShortText THEN {ShortText} ELSE {}

RecordsNamed(tbl, name) == {r \in Rows(tbl) : Lower(r.name) = Lower(name)}

\* C7: after any sequence of ingests and link calls from the empty store,
\* no two Person records and no two Company records have the same name
\* compared case-insensitively, and a person mentioned by name in a stored
\* interaction, as participant or in the text, exists as exactly one record.
C7_OneRecordPerName ==
    /\ UniqueNames
    /\ \A x \in Rows(interactions) :
          /\ \A k \in 1..Len(x.participants) :
                Cardinality({r \in Rows(people) : r.id = x.participants[k]})
                    = 1
          /\ \A name \in PeopleMentionedIn(x.raw_text) :
                Cardinality(RecordsNamed(people, name)) = 1

\* ------------------------------------------------ claims (concurrent links)
NameOnly(m) ==
    /\ m.entity_type \in {COMPANY, PERSON}
    /\ m.url = None /\ m.email = None /\ m.linkedin_url = None

\* C8: a link call that missed the name lookup for a name-only mention
\* creates its record when it resumes, whatever the other task has stored in
\* the meantime: the save inserts the new row and returns its id, with no
\* lock and no second look at the name. Two calls that both missed thus
\* both create.
C8_BothCreate ==
    [][\A t \in Tasks :
          (call[t].pc = "save" /\ call'[t].pc = "idle" /\ NameOnly(call[t].m))
          => /\ IF call[t].m.entity_type = COMPANY
                THEN companies' = Append(companies, NewRow(call[t]))
                ELSE people' = Append(people, NewRow(call[t]))
             /\ call'[t] = Returned(call[t].id, "ok")]_vars

\* Both tasks have returned from a link call that created a record, and the
\* two records are distinct, carry the same name and no identifier.
C8_Witness ==
    /\ \A t \in Tasks : call[t].pc = "idle" /\ call[t].outcome = "ok"
    /\ call["t1"].id # call["t2"].id
    /\ \E class \in {COMPANY, PERSON} :
          \E r1, r2 \in Rows(Table(class)) :
             /\ r1.id = call["t1"].id /\ r2.id = call["t2"].id
             /\ r1.name = r2.name
             /\ r1.linkedin_url = None /\ r2.linkedin_url = None
             /\ IF class = COMPANY THEN r1.url = None /\ r2.url = None
                ELSE r1.email = None /\ r2.email = None

\* ------------------------------------------------------- claims (extractor)
\* C9: the mentions one extract call returns have pairwise different
\* names when compared case-insensitively, whatever stages and entity types
\* they come from.
C9_NoDuplicateNames ==
    extraction.op = "extract" =>
        \A i, j \in 1..Len(extraction.entities) :
            Lower(extraction.entities[i].text)
                = Lower(extraction.entities[j].text) => i = j

\* The completion named a company in lower case; the text holds the LinkedIn
\* profile of a person whose derived name differs from it in case only, and
\* a URL whose company name does too; the call returned the company alone
\* under that name.
C9_Witness ==
    /\ extraction.op = "extract" /\ extraction.outcome = "ok"
    /\ \E i \in 1..Len(extraction.entities) :
          LET e == extraction.entities[i]
          IN  /\ e.entity_type = COMPANY /\ e.metadata = NoMetadata
              /\ \E k \in 1..Len(extraction.text) :
                    LET tok == extraction.text[k]
                    IN  /\ LinkedinMatch(tok, "in")
                        /\ Title(Replace(tok.slug, "-", " ")) # e.text
                        /\ Lower(Title(Replace(tok.slug, "-", " ")))
                               = Lower(e.text)
              /\ \E k \in 1..Len(extraction.text) :
                    LET tok == extraction.text[k]
                    IN  /\ tok.kind = "url" /\ tok.scheme
                        /\ Lower(Title(tok.domain[1])) = Lower(e.text)

\* The completion's content is malformed: not parseable, not an object, a
\* field missing or not a list, or a list with an item that is no string.
Malformed(raw) ==
    \/ raw.json # "object"
    \/ \E f \in {raw.companies, raw.people} :
          \/ f.kind # "list"
          \/ \E i \in 1..Len(f.items) : ~f.items[i].is_str

\* The completion's content carries no usable name at all.
NoLlmNames(raw) ==
    raw.json = "object" =>
        StringItems(raw.companies) = <<>> /\ StringItems(raw.people) = <<>>

\* C10: on a malformed content of the completion, extract completes without
\* raising, and when the content carries no usable name it returns exactly
\* the URL, email and LinkedIn mentions of the text.
C10_MalformedTolerated ==
    (extraction.op = "extract" /\ Malformed(extraction.raw)) =>
        /\ extraction.outcome = "ok"
        /\ NoLlmNames(extraction.raw) =>
              extraction.entities
                  = Structured(extraction.text, NoneSeen).entities

\* The closed list of non-entity terms, in lower case: roles, financial
\* metrics, funding-round labels.
NonEntityTerms ==
    { <<"c", "t", "o">>, <<"c", "e", "o">>, <<"a", "r", "r">>,
      <<"m", "r", "r">>, <<"t", "a", "m">>, <<"n", "p", "s">>,
      <<"s", "e", "r", "i", "e", "s", " ", "a">> }

\* C11: extract never returns a mention whose name is a term of the closed
\* non-entity list, whatever the completion lists among its companies or
\* people.
C11_NoNonEntityTerm ==
    extraction.op = "extract" =>
        \A i \in 1..Len(extraction.entities) :
            Lower(extraction.entities[i].text) \notin NonEntityTerms

\* What the six stages of extract produce on the text and the completion
\* of the recorded call, each stage taken alone, in the order of the stages.
StageMentions ==
    LET llm == extract_with_llm(extraction.raw)
        text == extraction.text
    IN  AddLlmNames(NoneSeen, llm.companies, COMPANY, 1).entities
        \o AddLlmNames(NoneSeen, llm.people, PERSON, 1).entities
        \o extract_from_urls(text, NoneSeen, 1).entities
        \o extract_from_emails(text, NoneSeen, 1).entities
        \o LinkedinLoop(text, NoneSeen, 1, "company", COMPANY).entities
        \o LinkedinLoop(text, NoneSeen, 1, "in", PERSON).entities

\* The places of a sequence of mentions whose name no earlier place
\* carries.
FirstOfName(all) ==
    {i \in 1..Len(all) :
        \A j \in 1..(i - 1) : Lower(all[j].text) # Lower(all[i].text)}

\* C27: of the mentions the six stages produce under one case-insensitive
\* name, extract returns the one of the earliest stage, with that stage's
\* name, type, confidence and metadata, and none of the later ones; the
\* mentions returned keep the order of the stages.
C27_EarlierStageWins ==
    (extraction.op = "extract" /\ extraction.outcome = "ok")
    => \A all \in {StageMentions} :
       \A first \in {FirstOfName(all)} :
           /\ Len(extraction.entities) = Cardinality(first)
           /\ \A i \in first :
                 extraction.entities[Cardinality({j \in first : j <= i})]
                    = all[i]

\* The URL stage and the LinkedIn person stage produced the same name; the
\* call returned the company of the URL stage with its url and dropped the
\* person with its LinkedIn URL.
C27_Witness ==
    /\ extraction.op = "extract" /\ extraction.outcome = "ok"
    /\ \E all \in {StageMentions} :
       \E i, j \in 1..Len(all) :
          /\ i < j /\ i \in FirstOfName(all)
          /\ Lower(all[i].text) = Lower(all[j].text)
          /\ all[i].metadata.key = "url"
          /\ all[j].metadata.key = "linkedin_url"
          /\ all[j].entity_type = PERSON
          /\ \E k \in 1..Len(extraction.entities) :
                extraction.entities[k] = all[i]
          /\ \A k \in 1..Len(extraction.entities) :
                extraction.entities[k] # all[j]

\* --------------------------------------------------------- claims (chunker)
CharSize == chunking.chunk_size * CharsPerToken

\* C12: for a text whose length is at most the target size, chunk_text
\* returns exactly one chunk, equal to the text with leading and trailing
\* whitespace stripped.
C12_ShortTextStripped ==
    (chunking.pc = "done" /\ Len(chunking.text) <= CharSize) =>
        chunking.chunks = <<Strip(chunking.text)>>

\* C13: chunk_text terminates for every text and every configuration. The
\* next window start is a function of the window start alone, and window
\* starts are bounded below, so the loop ends exactly when no window start
\* comes again; the claim gives as its reason that the start strictly
\* increases on every iteration.
C13_Terminates ==
    chunking.pc = "loop" =>
        /\ chunking.start \notin chunking.starts
        /\ \A s \in chunking.starts : s < chunking.start

\* A text longer than the target size under 0 <= overlap < min < target.
LongTextOrderedConfig ==
    /\ Len(chunking.text) > CharSize
    /\ chunking.chunk_overlap < chunking.min_chunk_size
    /\ chunking.min_chunk_size < chunking.chunk_size

\* C14: for a text longer than the target size and 0 <= overlap < min <
\* target, the windows cover every character position: the first starts at
\* 0, each next one starts at or before the cut of the one before, so the
\* windows taken so far cover the text up to the last cut, and when the
\* loop ends they cover the whole text.
C14_WindowsCoverText ==
    LongTextOrderedConfig =>
        /\ (chunking.pc = "loop" /\ chunking.windows = 0)
              => chunking.start = 0
        /\ (chunking.pc = "loop" /\ chunking.windows > 0) =>
              /\ chunking.start <= chunking.end
              /\ chunking.covered
                    = 0..(Min(chunking.end, Len(chunking.text)) - 1)
        /\ chunking.pc = "done"
              => chunking.covered = 0..(Len(chunking.text) - 1)

\* A call on such a text has returned after several windows, one of them
\* cut at a boundary before the target size, and a later one overlapping it.
C14_Witness ==
    /\ LongTextOrderedConfig
    /\ chunking.chunk_overlap > 0
    /\ chunking.pc = "done"
    /\ chunking.windows >= 2
    /\ Len(chunking.chunks) >= 2
    /\ chunking.covered = 0..(Len(chunking.text) - 1)

\* C28: every chunk chunk_text returns is non-empty and has no leading or
\* trailing whitespace, whatever the text: empty, blank, short or long.
C28_ChunksNonEmptyStripped ==
    chunking.pc = "done"
    => \A i \in 1..Len(chunking.chunks) :
          /\ chunking.chunks[i] # <<>>
          /\ Strip(chunking.chunks[i]) = chunking.chunks[i]

\* ================================================== claims: the pipeline
\* The SourceRecord with this id is in Storage.
SourceStored(id) ==
    \/ \E x \in Rows(interactions) : x.id = id
    \/ \E x \in Rows(artifacts) : x.id = id

\* The chunks Storage holds under a source id, and the ids the Vector Index
\* holds under it.
ChunksOf(id) == get_chunks_by_source(chunk_table, id)
StoredIds(id) == {ChunksOf(id)[i].id : i \in 1..Len(ChunksOf(id))}
IndexedIds(id) == {vectors[i].id : i \in {j \in 1..Len(vectors) :
                                              vectors[j].source_id = id}}

\* The chunks the pipeline's chunker makes of a text.
Segments(text) == chunk_text(text, ChunkSize, ChunkOverlap, MinChunkSize)

\* C15: an ingest whose collaborators all succeed, on a text that segments
\* into n >= 1 chunks, completes and leaves exactly n chunks under the id
\* of its SourceRecord in Storage, chunk i carrying chunk text i, and the
\* same n chunk ids in the Vector Index.
C15_IngestStoresEveryChunk ==
    (/\ ingest.op # "none"
     /\ ingest.outcome # "IntegrityError"
     /\ Segments(ingest.text).returns
     /\ Len(Segments(ingest.text).chunks) >= 1)
    => /\ ingest.outcome = "ok"
       /\ SourceStored(ingest.id)
       /\ Len(ChunksOf(ingest.id)) = Len(Segments(ingest.text).chunks)
       /\ \A i \in 1..Len(ChunksOf(ingest.id)) :
             ChunksOf(ingest.id)[i].text = Segments(ingest.text).chunks[i]
       /\ IndexedIds(ingest.id) = StoredIds(ingest.id)

RepeatedIngest ==
    /\ ingest.op # "none"
    /\ ingest.repeats
    /\ ingest.outcome # "IntegrityError"

\* C17: the second of two equal ingests creates a second SourceRecord with
\* a new id and a second set of chunks with new ids, one per segment of
\* the text, and creates no Company or Person record.
C17_RepeatCreatesSourceAndChunks ==
    RepeatedIngest
    => /\ ingest.id # ingest.previous_id
       /\ SourceStored(ingest.id) /\ SourceStored(ingest.previous_id)
       /\ ingest.created = 0
       /\ Len(ChunksOf(ingest.id)) = Len(Segments(ingest.text).chunks)
       /\ Len(ChunksOf(ingest.previous_id))
             = Len(Segments(ingest.text).chunks)
       /\ StoredIds(ingest.id) \cap StoredIds(ingest.previous_id) = {}
       /\ IndexedIds(ingest.id) = StoredIds(ingest.id)

\* The calls of the most recent ingest after its participant links and its
\* SourceRecord write, and after its embedding call.
AfterSource == SubSeq(ingest.calls, Len(ingest.participants) + 2,
                      Len(ingest.calls))
ChunkCalls == SubSeq(AfterSource, 2, Len(AfterSource))

\* The calls that may follow a call within the processing of one chunk.
Successors(tag) ==
    IF tag \in {"extract", "link_entity"} THEN {"link_entity", "save_chunk"}
    ELSE IF tag = "save_chunk" THEN {"upsert"}
    ELSE {}

C26_ParticipantsAreASet ==
    ingest.op = "ingest_interaction"
    => /\ ingest.outcome # "IntegrityError"
       /\ SourceStored(ingest.id)
       /\ \A x \in Rows(interactions) :
             x.id = ingest.id
             => /\ ~ParticipantConflict(x.participants)
                /\ Len(x.participants) <= Len(ingest.participants)

\* ==================================================== claims: retrieval
\* The entity ids Storage holds for a chunk id, and the distance of the
\* indexed chunk from the query of the recorded call.
EntityIdsOf(chunk_id) ==
    LET row == CHOOSE r \in Rows(chunk_table) : r.id = chunk_id
    IN  {row.entity_ids[i] : i \in 1..Len(row.entity_ids)}

DistanceOf(chunk_id) ==
    LET entry == CHOOSE e \in Rows(vectors) : e.id = chunk_id
    IN  CosineDistance(search.query_embedding, entry.embedding)

FilterSet == {search.filter[i] : i \in 1..Len(search.filter)}

ResultIds == [i \in 1..Len(search.results) |-> search.results[i].chunk.id]

\* C18: search_by_company / search_by_person for an entity id that a
\* stored chunk lists returns one result per such chunk, at least one, and
\* every result has score 1.
C18_EntitySearchReturnsChunks ==
    (/\ search.op \in {"search_by_company", "search_by_person"}
     /\ search.outcome # "pending"
     /\ get_chunks_by_entity(chunk_table, search.filter[1], search.limit)
           # <<>>)
    => /\ search.outcome = "ok"
       /\ Len(search.results) >= 1
       /\ Len(search.results)
             = Len(get_chunks_by_entity(chunk_table, search.filter[1],
                                        search.limit))
       /\ \A i \in 1..Len(search.results) : search.results[i].score = 1

\* C19: the results of semantic_search, filtered or not, come in the order
\* in which the index returned them, each with score 1 - distance, so the
\* scores never increase along the sequence.
C19_ScoresNonIncreasing ==
    (search.op = "semantic_search" /\ search.outcome = "ok")
    => /\ \A i, j \in 1..Len(search.results) :
             i < j => search.results[i].score >= search.results[j].score
       /\ \A i \in 1..Len(search.results) :
             search.results[i].score = 1 - DistanceOf(ResultIds[i])
       /\ \A i, j \in 1..Len(search.results) :
             i < j => \E h, k \in 1..Len(search.fetched) :
                         /\ h < k
                         /\ search.fetched[h] = ResultIds[i]
                         /\ search.fetched[k] = ResultIds[j]

\* A filtered search returned two results of different scores after
\* skipping a nearer chunk that does not match the filter.
C19_Witness ==
    /\ search.op = "semantic_search" /\ search.outcome = "ok"
    /\ search.filter # <<>>
    /\ Len(search.results) = 2
    /\ search.results[1].score > search.results[2].score
    /\ search.fetched[1] # ResultIds[1]

\* C20: a search with filter ids and limit L fetches the 3 * L nearest
\* chunks of the index (all of them when there are fewer) and returns the
\* first min(L, m) of the m fetched chunks that list a filter id, in the
\* order of the index; every result lists a filter id and there are at
\* most L results.
C20_FilteredSearchTakesFirstMatches ==
    (search.op = "semantic_search" /\ search.outcome = "ok"
     /\ search.filter # <<>>)
    => LET matching == SelectSeq(search.fetched, LAMBDA id :
                           EntityIdsOf(id) \cap FilterSet # {})
       IN  /\ Len(search.fetched) = Min(3 * search.limit, Len(vectors))
           /\ \A i, j \in 1..Len(search.fetched) :
                 i < j => /\ search.fetched[i] # search.fetched[j]
                          /\ DistanceOf(search.fetched[i])
                                <= DistanceOf(search.fetched[j])
           /\ \A e \in Rows(vectors) :
                 (\A i \in 1..Len(search.fetched) : search.fetched[i] # e.id)
                 => \A i \in 1..Len(search.fetched) :
                       DistanceOf(search.fetched[i]) <= DistanceOf(e.id)
           /\ ResultIds = SubSeq(matching, 1,
                                 Min(search.limit, Len(matching)))
           /\ \A i \in 1..Len(search.results) :
                 {search.results[i].chunk.entity_ids[k] :
                    k \in 1..Len(search.results[i].chunk.entity_ids)}
                 \cap FilterSet # {}
           /\ Len(search.results) <= search.limit

\* A filtered search on an index that holds more than 3 * L chunks: one
\* chunk is not fetched, a fetched chunk that does not match is skipped,
\* and the search stops at L results with a matching chunk left over.
C20_Witness ==
    /\ search.op = "semantic_search" /\ search.outcome = "ok"
    /\ search.filter # <<>>
    /\ Len(vectors) > 3 * search.limit
    /\ Len(search.fetched) = 3 * search.limit
    /\ Len(search.results) = search.limit
    /\ \E i \in 1..Len(search.fetched) :
          EntityIdsOf(search.fetched[i]) \cap FilterSet = {}
    /\ Cardinality({i \in 1..Len(search.fetched) :
                       EntityIdsOf(search.fetched[i]) \cap FilterSet # {}})
          > search.limit

\* The stores a search may read: Storage and the Vector Index.
Stores == <<companies, people, interactions, artifacts, chunk_table, vectors>>

\* C21: semantic_search on a Retriever without an embedding function ends
\* at once with ValueError: no call to the embedding function, the index
\* or Storage is made, nothing is fetched or returned, and every store is
\* left as it was.
C21_UnconfiguredSearchFailsFirst ==
    [][(/\ search.op = "semantic_search" /\ search.outcome = "pending"
        /\ search.embedding_fn = None)
       => /\ search'.outcome = "ValueError"
          /\ search'.calls = <<>>
          /\ search'.fetched = <<>> /\ search'.results = <<>>
          /\ search'.query_embedding = NoEmbedding
          /\ UNCHANGED Stores]_vars

\* A search without an embedding function failed on an index that holds
\* chunks, one of them matching the filter of the call.
C21_Witness ==
    /\ search.op = "semantic_search" /\ search.embedding_fn = None
    /\ search.outcome = "ValueError"
    /\ search.filter[1] = CompanyId
    /\ \E i \in 1..Len(vectors) : CompanyId \in EntityIdsOf(vectors[i].id)

\* C22: semantic_search with an empty query and no entity filter ends with
\* an input error and makes no call to the embedding function or the
\* index.
C22_EmptyQueryRejected ==
    (/\ search.op = "semantic_search" /\ search.outcome # "pending"
     /\ search.query = <<>>
     /\ search.filter \in {<<>>, <<NoId, NoId>>})
    => /\ search.outcome = "ValueError"
       /\ search.calls = <<>>
       /\ search.fetched = <<>>

\* The ids of a chunk that are ids of a stored Person and of no stored
\* Company, in the order of the chunk, and the Person rows they name.
PersonIdsOf(chunk) ==
    SelectSeq(chunk.entity_ids,
              LAMBDA id : /\ \A c \in Rows(companies) : c.id # id
                          /\ \E p \in Rows(people) : p.id = id)

PeopleOf(chunk) ==
    [k \in 1..Len(PersonIdsOf(chunk)) |->
        CHOOSE p \in Rows(people) : p.id = PersonIdsOf(chunk)[k]]

====
